---------------------------- MODULE Spec2Model ----------------------------
(***************************************************************************)
(* A model of the shape-data-generator: the seeded generator               *)
(* (SeededRandom, Mulberry32), the parameter sampler                       *)
(* (generateRandomParams, in its three source variants) and the batch      *)
(* pipeline of the UI controller (UIController.generateData).              *)
(*                                                                         *)
(* Numbers.  A JavaScript Number that holds an integer is kept as a pair   *)
(* <<hi, lo>> of 16-bit limbs, value hi * 65536 + lo, with 0 <= lo < 65536 *)
(* and hi any integer: the model checker's integers are 32 bits wide and   *)
(* could not hold an unsigned 32-bit word, let alone a product of two.     *)
(* Int32 values have -32768 <= hi < 32768 and Uint32 values                *)
(* 0 <= hi < 65536.  The sampler's real arithmetic is carried out on exact *)
(* rationals <<n, d>> (d > 0, lowest terms); rounding of IEEE doubles is   *)
(* not modelled.                                                           *)
(***************************************************************************)
EXTENDS Integers, Sequences, FiniteSets, TLC

VARIABLES
    seed0,      \* the seed both generator instances were constructed with
    state,      \* SeededRandom.state of each of the two instances
    calls,      \* the calls made so far, in order: <<method, min, max>>
    results,    \* per instance, for each call it has made: the value
                \* returned and the state left behind
    cfg,        \* the arguments of generateRandomParams
    source,     \* the random source handed to the sampler
    drawn,      \* the values the source returned during the last call
    params,     \* the record generateRandomParams returned
    sampled,    \* the number of records sampled so far
    total,      \* the totalCount the filenames are formatted for
    names,      \* the filenames formatted so far, each with its index
    backgrounds,    \* the background colours returned so far, each with
                    \* the backgroundType asked for and the draws taken
    colors,     \* the last call of hslToColor, if any: its arguments and
                \* the string it returned
    canvasConfig,       \* UIController.canvasConfig
    generatorConfig,    \* ShapeGenerator.config
    canvas,             \* the canvas: its width and the picture it shows
    generateBtn,        \* #generate-btn: disabled, innerHTML
    previewBtn,         \* #preview-btn: disabled
    progressContainer,  \* #progress-container: style.display and the text
    previewGrid,        \* the children of #preview-grid
    alerts,             \* the messages passed to alert(), in order
    saved,              \* the files passed to saveAs(), in order, each with
                        \* the config and metadata of its run
    clicks,             \* the clicks handled so far
    pc,                 \* where generateData is suspended, or "idle"
    config,             \* generateData: const config
    rng,                \* generateData: the state of const rng
    iter,               \* generateData: the loop variable i
    current,            \* generateData: const params of this iteration
    blob,               \* the snapshot the pending toBlob() will deliver
    images,             \* the entries of the archive's images/ folder
    metadata,           \* generateData: const metadata
    csv,                \* the archive's metadata.csv entry
    history,            \* the records this run has sampled, in order
    progressCalls,      \* the updateProgress(i, N) calls of this run
    outcome             \* how the last run ended

libVars == <<seed0, state, calls, results, cfg, source, drawn, params, sampled,
             total, names, backgrounds, colors>>
pageVars == <<canvasConfig, generatorConfig, canvas, generateBtn, previewBtn,
              progressContainer, previewGrid, alerts, saved, clicks>>
runVars == <<pc, config, rng, iter, current, blob, images, metadata, csv,
             history, progressCalls, outcome>>
vars == <<libVars, pageVars, runVars>>

---------------------------------------------------------------------------
(* Bounds of the model. *)

MaxCalls == 3       \* calls made on each generator instance
MaxSeed == 3        \* small seeds 0..MaxSeed, beside the named ones
DrawDen == 8        \* levels a seeded draw is truncated to in the sampler
AmbientDen == 2     \* levels of an ambient (Math.random) draw
MaxSamples == 2     \* records sampled from one seeded stream

---------------------------------------------------------------------------
(* 32-bit integer arithmetic of JavaScript on 16-bit limbs. *)

W == 65536
HalfW == W \div 2

\* 0x6D2B79F5 = INC_HI * 65536 + INC_LO
INC_HI == 27947
INC_LO == 31221

Pow2(k) == 2 ^ k

RECURSIVE XorBits(_, _, _)
XorBits(a, b, n) ==
    IF n = 0 THEN 0
    ELSE (((a % 2) + (b % 2)) % 2) + 2 * XorBits(a \div 2, b \div 2, n - 1)

RECURSIVE OrBits(_, _, _)
OrBits(a, b, n) ==
    IF n = 0 THEN 0
    ELSE (IF a % 2 = 1 \/ b % 2 = 1 THEN 1 ELSE 0)
         + 2 * OrBits(a \div 2, b \div 2, n - 1)

\* the bitwise operations on bytes, tabulated once
XorByte == [a \in 0 .. 255 |-> [b \in 0 .. 255 |-> XorBits(a, b, 8)]]
OrByte == [a \in 0 .. 255 |-> [b \in 0 .. 255 |-> OrBits(a, b, 8)]]

Xor16(a, b) ==
    (XorByte[a \div 256][b \div 256] * 256) + XorByte[a % 256][b % 256]
Or16(a, b) ==
    (OrByte[a \div 256][b \div 256] * 256) + OrByte[a % 256][b % 256]

\* ToUint32 / ToInt32 of an integer-valued Number
ToUint32(x) == <<x[1] % W, x[2]>>
ToInt32(x) ==
    LET h == x[1] % W
    IN  <<IF h >= HalfW THEN h - W ELSE h, x[2]>>

\* a ^ b
BitXor(a, b) ==
    LET ua == ToUint32(a)
        ub == ToUint32(b)
    IN  ToInt32(<<Xor16(ua[1], ub[1]), Xor16(ua[2], ub[2])>>)

\* a | b
BitOr(a, b) ==
    LET ua == ToUint32(a)
        ub == ToUint32(b)
    IN  ToInt32(<<Or16(ua[1], ub[1]), Or16(ua[2], ub[2])>>)

\* a >>> k, for 0 <= k < 16
UShr(a, k) ==
    LET ua == ToUint32(a)
    IN  <<ua[1] \div Pow2(k),
          ((ua[1] % Pow2(k)) * Pow2(16 - k)) + (ua[2] \div Pow2(k))>>

\* a + b on Numbers (exact: the model stays below 2^53)
Plus(a, b) ==
    LET lo == a[2] + b[2]
    IN  <<a[1] + b[1] + (lo \div W), lo % W>>

\* the 32-bit product of two 16-bit words, as <<hi, lo>>
Mul16(a, b) ==
    LET p0 == a * (b % 256)
        p1 == a * (b \div 256)
        lo == ((p1 % 256) * 256) + p0
    IN  <<((p1 \div 256) + (lo \div W)) % W, lo % W>>

\* Math.imul(a, b)
imul(a, b) ==
    LET ua == ToUint32(a)
        ub == ToUint32(b)
        ll == Mul16(ua[2], ub[2])
        hl == Mul16(ua[1], ub[2])
        lh == Mul16(ua[2], ub[1])
    IN  ToInt32(<<(ll[1] + hl[2] + lh[2]) % W, ll[2]>>)

---------------------------------------------------------------------------
(* SeededRandom *)

\* a generator seeded from the number of clicks, whatever the seed given
SeededFromClicks(seed) == <<0, clicks>>

\* constructor(seed): this.state = seed
SeededRandom(seed) == <<seed \div W, seed % W>>

\* a generator whose state lives in one module-level variable that every
\* instance advances
StateAfterNextShared(st) ==
    Plus(IF Len(results[1]) >= Len(results[2]) THEN state[1] ELSE state[2],
         <<INC_HI, INC_LO>>)

\* this.state += 0x6D2B79F5
StateAfterNext(st) == Plus(st, <<INC_HI, INC_LO>>)

\* t ^ t >>> 14 at the end of next(): an Int32
MixInt32(st) ==
    LET t0 == StateAfterNext(st)
        t1 == imul(BitXor(t0, UShr(t0, 15)), BitOr(t0, <<0, 1>>))
        t2 == BitXor(t1, Plus(t1, imul(BitXor(t1, UShr(t1, 7)),
                                       BitOr(t1, <<0, 61>>))))
    IN  BitXor(t2, UShr(t2, 14))

\* next() without the final >>> 0
MixSigned(st) == MixInt32(st)

\* (t ^ t >>> 14) >>> 0: the Uint32 that next() divides by 4294967296
Mix(st) == UShr(MixInt32(st), 0)

\* next(): the numerator v of the value v / 4294967296 it returns
next(st) == [state |-> StateAfterNext(st), value |-> Mix(st)]

\* nextFloat(min, max) = min + next() * (max - min), for integers min and max,
\* as <<i, fhi, flo>>: the value i + (fhi * 65536 + flo) / 4294967296
nextFloat(st, min, max) ==
    LET r == next(st)
        plo == r.value[2] * (max - min)
        phi == (r.value[1] * (max - min)) + (plo \div W)
    IN  [state |-> r.state,
         value |-> <<min + (phi \div W), phi % W, plo % W>>]

\* Math.floor of a value <<i, fhi, flo>>
Floor(v) == v[1]

\* nextInt with the upper bound one too far
nextIntOffByOne(st, min, max) ==
    LET r == nextFloat(st, min, max + 2)
    IN  [state |-> r.state, value |-> Floor(r.value)]

\* nextInt(min, max) = Math.floor(nextFloat(min, max + 1))
nextInt(st, min, max) ==
    LET r == nextFloat(st, min, max + 1)
    IN  [state |-> r.state, value |-> Floor(r.value)]

---------------------------------------------------------------------------
(* The page after new UIController(canvas): the canvas has the default     *)
(* size, both buttons are enabled, no run is in progress.  The progress    *)
(* container starts hidden.                                                *)

Margin == 5

\* DEFAULT_CANVAS_CONFIG
DEFAULT_CANVAS_CONFIG == [imageSize |-> 64, margin |-> Margin]

PageLoaded ==
    /\ canvasConfig = DEFAULT_CANVAS_CONFIG
    /\ generatorConfig = DEFAULT_CANVAS_CONFIG
    /\ canvas = [width |-> DEFAULT_CANVAS_CONFIG.imageSize, picture |-> "blank"]
    /\ generateBtn = [disabled |-> FALSE, innerHTML |-> "originalText"]
    /\ previewBtn = [disabled |-> FALSE]
    /\ progressContainer = [display |-> "none", text |-> <<>>]
    /\ previewGrid = <<>>
    /\ alerts = <<>>
    /\ saved = <<>>
    /\ clicks = 0
    /\ pc = "idle"
    /\ config = "none"
    /\ rng = "none"
    /\ iter = 0
    /\ current = "none"
    /\ blob = "none"
    /\ images = <<>>
    /\ metadata = <<>>
    /\ csv = "none"
    /\ history = <<>>
    /\ progressCalls = <<>>
    /\ outcome = "none"

---------------------------------------------------------------------------
(* Two generator instances built from one seed and driven through the same *)
(* sequence of calls, each at its own pace.                                *)

SeedValues == (0 .. MaxSeed) \cup {42, -1, 2147483646}
FloatRanges == {<<0, 360>>}
IntRanges == {<<3, 8>>, <<0, 1>>, <<-2, 1>>}
Instances == {1, 2}

InitRng ==
    /\ seed0 \in SeedValues
    /\ state = [i \in Instances |-> SeededRandom(seed0)]
    /\ calls = <<>>
    /\ results = [i \in Instances |-> <<>>]
    /\ cfg = "none" /\ source = "none" /\ drawn = <<>>
    /\ params = "none" /\ sampled = 0
    /\ total = 0 /\ names = <<>> /\ backgrounds = <<>>
    /\ colors = <<>>
    /\ PageLoaded

\* Instance i makes its next call: the one the other instance made at this
\* position if it is ahead, a new one otherwise.
MayCall(i, c) ==
    LET k == Len(results[i]) + 1
    IN  /\ k <= MaxCalls
        /\ k <= Len(calls) => calls[k] = c

Record(i, c, r) ==
    /\ state' = [state EXCEPT ![i] = r.state]
    /\ results' = [results EXCEPT
                      ![i] = Append(@, [value |-> r.value, state |-> r.state])]
    /\ calls' = IF Len(results[i]) < Len(calls) THEN calls
                ELSE Append(calls, c)
    /\ UNCHANGED <<seed0, cfg, source, drawn, params, sampled>>
    /\ UNCHANGED <<total, names, backgrounds, colors, pageVars, runVars>>

CallNext(i) ==
    LET r == next(state[i])
    IN  /\ MayCall(i, <<"next", 0, 0>>)
        /\ Record(i, <<"next", 0, 0>>, r)

CallNextFloat(i) ==
    \E a \in FloatRanges :
        LET r == nextFloat(state[i], a[1], a[2])
        IN  /\ MayCall(i, <<"nextFloat", a[1], a[2]>>)
            /\ Record(i, <<"nextFloat", a[1], a[2]>>, r)

CallNextInt(i) ==
    \E a \in IntRanges :
        LET r == nextInt(state[i], a[1], a[2])
        IN  /\ MayCall(i, <<"nextInt", a[1], a[2]>>)
            /\ Record(i, <<"nextInt", a[1], a[2]>>, r)

NextRng ==
    \E i \in Instances : CallNext(i) \/ CallNextFloat(i) \/ CallNextInt(i)

SpecRng == InitRng /\ [][NextRng]_vars

---------------------------------------------------------------------------
(* Exact rationals <<n, d>>, d > 0, in lowest terms. *)

Abs(x) == IF x < 0 THEN -x ELSE x
Max(a, b) == IF a >= b THEN a ELSE b

RECURSIVE Gcd(_, _)
Gcd(a, b) == IF b = 0 THEN a ELSE Gcd(b, a % b)

R(n, d) ==
    LET g == Gcd(Abs(n), d)
    IN  IF n = 0 THEN <<0, 1>> ELSE <<n \div g, d \div g>>

RInt(i) == <<i, 1>>
Lcm(a, b) == (a \div Gcd(a, b)) * b
RAdd(a, b) ==
    LET l == Lcm(a[2], b[2])
    IN  R((a[1] * (l \div a[2])) + (b[1] * (l \div b[2])), l)
RNeg(a) == <<-a[1], a[2]>>
RSub(a, b) == RAdd(a, RNeg(b))
RMul(a, b) ==
    LET g1 == Gcd(Abs(a[1]), b[2])
        g2 == Gcd(Abs(b[1]), a[2])
    IN  IF a[1] = 0 \/ b[1] = 0 THEN <<0, 1>>
        ELSE <<(a[1] \div g1) * (b[1] \div g2),
               (a[2] \div g2) * (b[2] \div g1)>>
RLeq(a, b) ==
    LET l == Lcm(a[2], b[2])
    IN  a[1] * (l \div a[2]) <= b[1] * (l \div b[2])
RLt(a, b) == ~RLeq(b, a)
RFloor(a) == a[1] \div a[2]
Half == <<1, 2>>
One == <<1, 1>>
Zero == <<0, 1>>

---------------------------------------------------------------------------
(* The random source of the sampler: const random = rng || { ... }.  The   *)
(* sampler is given the values its source will return, in order, each a    *)
(* rational in [0, 1): those of a SeededRandom, truncated to DrawDen       *)
(* levels, or any values of Math.random() on a grid of AmbientDen levels.  *)

\* v / 4294967296 truncated to DrawDen levels
Truncate(v) ==
    R(((v[1] * DrawDen) + ((v[2] * DrawDen) \div W)) \div W, DrawDen)

RECURSIVE Advance(_, _)
Advance(st, k) == IF k = 0 THEN st ELSE Advance(next(st).state, k - 1)

\* the i-th value a SeededRandom now in state st will return
SeededDraw(st, i) == Truncate(next(Advance(st, i - 1)).value)

\* random.nextFloat(min, max) on the draw u
randomNextFloat(u, min, max) == RAdd(min, RMul(u, RSub(max, min)))

\* random.nextInt(min, max) on the draw u
randomNextInt(u, min, max) ==
    RFloor(randomNextFloat(u, RInt(min), RInt(max + 1)))

---------------------------------------------------------------------------
(* generateRandomParams.  Each variant returns the record of the source    *)
(* and, as draws, the number of values it took from its random source.     *)

\* a range used in the order given
unsorted(min, max) == <<min, max>>

\* const [sMin, sMax] = sizeMin <= sizeMax ? [sizeMin, sizeMax]
\*                                         : [sizeMax, sizeMin]
sorted(min, max) == IF RLeq(min, max) THEN <<min, max>> ELSE <<max, min>>

\* const maxRadius = (imageSize / 2) - margin; const radius = size * maxRadius
radiusOf(size, imageSize, margin) ==
    RMul(size, RSub(R(imageSize, 2), RInt(margin)))

\* the lower end of the centre range with the radius left out
minCenterNoRadius(radius, margin, imageSize) == R(margin, imageSize)

\* const minCenter = (radius + margin) / imageSize
minCenterOf(radius, margin, imageSize) ==
    RMul(RAdd(radius, RInt(margin)), <<1, imageSize>>)

\* a sampler that draws the centre whatever the range
neverForced(minCenter, maxCenter) == FALSE

\* if (minCenter >= maxCenter)
forced(minCenter, maxCenter) == RLeq(maxCenter, minCenter)

\* src/src/shapeGenerator.ts: size, angle, vertices, centre, hue, saturation
generateRandomParams(random, c) ==
    LET s == sorted(c.sizeMin, c.sizeMax)
        a == sorted(c.angleMin, c.angleMax)
        v == sorted(RInt(c.verticesMin), RInt(c.verticesMax))
        h == sorted(c.hueMin, c.hueMax)
        sat == sorted(c.saturationMin, c.saturationMax)
        size == randomNextFloat(random[1], s[1], s[2])
        radius == radiusOf(size, c.imageSize, c.margin)
        minCenter == minCenterOf(radius, c.margin, c.imageSize)
        maxCenter == RSub(One, minCenter)
        f == forced(minCenter, maxCenter)
        n == IF f THEN 1 ELSE 3
    IN  [size |-> size,
         angle |-> randomNextFloat(random[n + 1], a[1], a[2]),
         vertices |-> randomNextInt(random[n + 2], Max(3, v[1][1]), v[2][1]),
         centerX |-> IF f THEN Half
                     ELSE randomNextFloat(random[2], minCenter, maxCenter),
         centerY |-> IF f THEN Half
                     ELSE randomNextFloat(random[3], minCenter, maxCenter),
         hue |-> randomNextFloat(random[n + 3], h[1], h[2]),
         saturation |-> randomNextFloat(random[n + 4], sat[1], sat[2]),
         draws |-> n + 4]

\* the RGB variant: size, angle, vertices, centre, colorR, colorG, colorB
generateRandomParamsRGB(random, c) ==
    LET s == sorted(c.sizeMin, c.sizeMax)
        a == sorted(c.angleMin, c.angleMax)
        v == sorted(RInt(c.verticesMin), RInt(c.verticesMax))
        r == sorted(c.colorRMin, c.colorRMax)
        g == sorted(c.colorGMin, c.colorGMax)
        b == sorted(c.colorBMin, c.colorBMax)
        size == randomNextFloat(random[1], s[1], s[2])
        radius == radiusOf(size, c.imageSize, c.margin)
        minCenter == minCenterOf(radius, c.margin, c.imageSize)
        maxCenter == RSub(One, minCenter)
        f == forced(minCenter, maxCenter)
        n == IF f THEN 1 ELSE 3
    IN  [size |-> size,
         angle |-> randomNextFloat(random[n + 1], a[1], a[2]),
         vertices |-> randomNextInt(random[n + 2], Max(3, v[1][1]), v[2][1]),
         centerX |-> IF f THEN Half
                     ELSE randomNextFloat(random[2], minCenter, maxCenter),
         centerY |-> IF f THEN Half
                     ELSE randomNextFloat(random[3], minCenter, maxCenter),
         colorR |-> randomNextFloat(random[n + 3], r[1], r[2]),
         colorG |-> randomNextFloat(random[n + 4], g[1], g[2]),
         colorB |-> randomNextFloat(random[n + 5], b[1], b[2]),
         draws |-> n + 5]

\* a kind selection that branches on u <= 0.5
shapeTypeUpToHalf(shapeTypeSetting, u) ==
    IF shapeTypeSetting = "both"
    THEN (IF RLeq(u, Half) THEN "polygon" ELSE "circle")
    ELSE shapeTypeSetting

\* if (shapeTypeSetting === 'both')
\*     shapeType = random.next() < 0.5 ? 'polygon' : 'circle';
\* else shapeType = shapeTypeSetting;
shapeTypeFor(shapeTypeSetting, u) ==
    IF shapeTypeSetting = "both"
    THEN (IF RLt(u, Half) THEN "polygon" ELSE "circle")
    ELSE shapeTypeSetting

\* a centre that ignores the position mode
centerInRange(positionType, u, minCenter, maxCenter) ==
    IF forced(minCenter, maxCenter) THEN Half
    ELSE randomNextFloat(u, minCenter, maxCenter)

\* if (positionType === 'center') centerX = 0.5
\* else if (minCenter >= maxCenter) centerX = 0.5
\* else centerX = random.nextFloat(minCenter, maxCenter)
centerAt(positionType, u, minCenter, maxCenter) ==
    IF positionType = "center" \/ forced(minCenter, maxCenter) THEN Half
    ELSE randomNextFloat(u, minCenter, maxCenter)

\* an angle drawn for circles too
angleDrawn(shapeType, u, aMin, aMax) == randomNextFloat(u, aMin, aMax)

\* angle: shapeType === 'circle' ? 0 : random.nextFloat(aMin, aMax)
angleFor(shapeType, u, aMin, aMax) ==
    IF shapeType = "circle" THEN Zero ELSE randomNextFloat(u, aMin, aMax)

\* vertices: shapeType === 'circle' ? 0
\*                                  : random.nextInt(Math.max(3, vMin), vMax)
verticesFor(shapeType, u, vMin, vMax) ==
    IF shapeType = "circle" THEN 0 ELSE randomNextInt(u, Max(3, vMin), vMax)

\* the shape-type variant: shapeType, size, centre by positionType, angle
\* and vertices for polygons only, hue, saturation, lightness
generateRandomParamsHSL(random, c) ==
    LET k == IF c.shapeType = "both" THEN 1 ELSE 0
        shapeType == shapeTypeFor(c.shapeType, random[1])
        s == sorted(c.sizeMin, c.sizeMax)
        a == sorted(c.angleMin, c.angleMax)
        v == sorted(RInt(c.verticesMin), RInt(c.verticesMax))
        h == sorted(c.hueMin, c.hueMax)
        sat == sorted(c.saturationMin, c.saturationMax)
        l == sorted(c.lightnessMin, c.lightnessMax)
        size == randomNextFloat(random[k + 1], s[1], s[2])
        radius == radiusOf(size, c.imageSize, c.margin)
        minCenter == minCenterOf(radius, c.margin, c.imageSize)
        maxCenter == RSub(One, minCenter)
        f == c.positionType = "center" \/ forced(minCenter, maxCenter)
        n == IF f THEN k + 1 ELSE k + 3
        m == IF shapeType = "circle" THEN n ELSE n + 2
    IN  [shapeType |-> shapeType,
         size |-> size,
         angle |-> angleFor(shapeType, random[n + 1], a[1], a[2]),
         vertices |-> verticesFor(shapeType, random[n + 2], v[1][1], v[2][1]),
         centerX |-> centerAt(c.positionType, random[k + 2],
                              minCenter, maxCenter),
         centerY |-> centerAt(c.positionType, random[k + 3],
                              minCenter, maxCenter),
         hue |-> randomNextFloat(random[m + 1], h[1], h[2]),
         saturation |-> randomNextFloat(random[m + 2], sat[1], sat[2]),
         lightness |-> randomNextFloat(random[m + 3], l[1], l[2]),
         draws |-> m + 3]

---------------------------------------------------------------------------
(* The sampler called on a sweep of arguments, with a seeded generator or  *)
(* with the ambient source.                                                *)

Config(variant, imageSize, shapeType, positionType, sz, an, vt, c1, c2, c3) ==
    [variant |-> variant, imageSize |-> imageSize, margin |-> Margin,
     shapeType |-> shapeType, positionType |-> positionType,
     sizeMin |-> sz[1], sizeMax |-> sz[2],
     angleMin |-> an[1], angleMax |-> an[2],
     verticesMin |-> vt[1], verticesMax |-> vt[2],
     hueMin |-> c1[1], hueMax |-> c1[2],
     saturationMin |-> c2[1], saturationMax |-> c2[2],
     lightnessMin |-> c3[1], lightnessMax |-> c3[2],
     colorRMin |-> c1[1], colorRMax |-> c1[2],
     colorGMin |-> c2[1], colorGMax |-> c2[2],
     colorBMin |-> c3[1], colorBMax |-> c3[2]]

ImageSizes == {16, 64, 100, 256}
ShapeTypes == {"polygon", "circle", "both"}
PositionTypes == {"random", "center"}
Size0 == <<R(3, 10), One>>
SizeRanges == {Size0, <<One, R(3, 10)>>, <<One, One>>, <<Half, RInt(2)>>}
Angle0 == <<Zero, RInt(360)>>
Vertices0 == <<3, 8>>
VertexRanges == {Vertices0, <<8, 3>>, <<3, 3>>, <<1, 4>>, <<2, 1>>, <<1, 1>>}
Hue0 == <<Zero, RInt(360)>>
Sat0 == <<Half, One>>
Light0 == <<R(3, 10), R(7, 10)>>
Unit0 == <<Zero, One>>
Rev(r) == <<r[2], r[1]>>

Configs ==
    {Config("hs", n, "polygon", "random", sz, Angle0, Vertices0,
            Hue0, Sat0, Light0) : n \in ImageSizes, sz \in SizeRanges}
    \cup {Config("hs", 64, "polygon", "random", Size0, Angle0, vt,
                 Hue0, Sat0, Light0) : vt \in VertexRanges}
    \cup {Config("hs", 64, "polygon", "random", Rev(Size0), Rev(Angle0),
                 Rev(Vertices0), Rev(Hue0), Rev(Sat0), Rev(Light0))}
    \cup {Config("rgb", n, "polygon", "random", Size0, Angle0, Vertices0,
                 Unit0, Unit0, Unit0) : n \in {16, 64}}
    \cup {Config("rgb", 64, "polygon", "random", Rev(Size0), Rev(Angle0),
                 Rev(Vertices0), Rev(Unit0), Rev(Sat0), Rev(Light0))}
    \cup {Config("hsl", n, t, p, sz, Angle0, Vertices0, Hue0, Sat0, Light0) :
             n \in {16, 64}, t \in ShapeTypes, p \in PositionTypes,
             sz \in {Size0, <<Half, RInt(2)>>}}
    \cup {Config("hsl", 64, "polygon", p, Rev(Size0), Rev(Angle0),
                 Rev(Vertices0), Rev(Hue0), Rev(Sat0), Rev(Light0)) :
             p \in PositionTypes}
    \cup {Config("hsl", 64, "polygon", "center", Size0, Angle0, vt,
                 Hue0, Sat0, Light0) : vt \in {<<1, 4>>, <<1, 1>>}}

SamplerSeeds == (0 .. MaxSeed) \cup {42}
AmbientGrid == {R(k, AmbientDen) : k \in 0 .. AmbientDen - 1}

\* the values the source can return for the next n draws
Draws(n) ==
    IF source.kind = "seeded"
    THEN {[i \in 1 .. n |-> SeededDraw(source.state, i)]}
    ELSE [1 .. n -> AmbientGrid]

InitSampler ==
    /\ cfg \in Configs
    /\ source \in {[kind |-> "ambient", state |-> <<0, 0>>]}
                  \cup {[kind |-> "seeded", state |-> SeededRandom(s)] :
                           s \in SamplerSeeds}
    /\ drawn = <<>>
    /\ params = "none"
    /\ sampled = 0
    /\ seed0 = 0 /\ state = "none" /\ calls = <<>> /\ results = "none"
    /\ total = 0 /\ names = <<>> /\ backgrounds = <<>>
    /\ colors = <<>>
    /\ PageLoaded

MaySample ==
    sampled < (IF source.kind = "seeded" THEN MaxSamples ELSE 1)

\* a sampler that takes every value offered, whatever the record
ReturnedWhole(random, p) ==
    /\ params' = p
    /\ drawn' = random
    /\ sampled' = sampled + 1
    /\ source' = IF source.kind = "seeded"
                 THEN [source EXCEPT !.state = Advance(@, Len(random))]
                 ELSE source
    /\ UNCHANGED <<cfg, seed0, state, calls, results>>
    /\ UNCHANGED <<total, names, backgrounds, colors, pageVars, runVars>>

\* the record p is returned: the values taken are the first p.draws of the
\* source, which is left behind them
Returned(random, p) ==
    /\ params' = p
    /\ drawn' = [i \in 1 .. p.draws |-> random[i]]
    /\ sampled' = sampled + 1
    /\ source' = IF source.kind = "seeded"
                 THEN [source EXCEPT !.state = Advance(@, p.draws)]
                 ELSE source
    /\ UNCHANGED <<cfg, seed0, state, calls, results>>
    /\ UNCHANGED <<total, names, backgrounds, colors, pageVars, runVars>>

Sample ==
    /\ cfg.variant = "hs"
    /\ MaySample
    /\ \E random \in Draws(7) : Returned(random, generateRandomParams(random, cfg))

SampleRGB ==
    /\ cfg.variant = "rgb"
    /\ MaySample
    /\ \E random \in Draws(8) : 
           Returned(random, generateRandomParamsRGB(random, cfg))

SampleHSL ==
    /\ cfg.variant = "hsl"
    /\ MaySample
    /\ \E random \in Draws((IF cfg.shapeType = "both" THEN 1 ELSE 0) + 1
                          + (IF cfg.positionType = "center" THEN 0 ELSE 2)
                          + (IF cfg.shapeType = "circle" THEN 0 ELSE 2) + 3) :
           Returned(random, generateRandomParamsHSL(random, cfg))

NextSampler == Sample \/ SampleRGB \/ SampleHSL

Spec == InitSampler /\ [][NextSampler]_vars

---------------------------------------------------------------------------
(* formatFilename and createCSV.  A string is the sequence of its          *)
(* characters.                                                             *)

DecimalDigits == <<"0", "1", "2", "3", "4", "5", "6", "7", "8", "9">>

\* n.toString() for an integer n >= 0
RECURSIVE toString(_)
toString(n) ==
    IF n < 10 THEN <<DecimalDigits[n + 1]>>
    ELSE Append(toString(n \div 10), DecimalDigits[(n % 10) + 1])

\* s.padStart(targetLength, ch)
RECURSIVE padStart(_, _, _)
padStart(s, targetLength, ch) ==
    IF Len(s) >= targetLength THEN s
    ELSE padStart(<<ch>> \o s, targetLength, ch)

\* a name padded to four digits whatever the total
FourDigitFilename(index, totalCount) ==
    padStart(toString(index), 4, "0") \o <<".", "p", "n", "g">>

\* const digits = Math.max(4, totalCount.toString().length);
\* return index.toString().padStart(digits, '0') + '.png'
formatFilename(index, totalCount) ==
    LET digits == Max(4, Len(toString(totalCount)))
    IN  padStart(toString(index), digits, "0") \o <<".", "p", "n", "g">>

\* the integer nearest to (r / d) * 10^f, the larger one on a tie, for
\* 0 <= r < d, appended to the decimal digits q found so far
RECURSIVE FractionDigits(_, _, _, _)
FractionDigits(q, r, d, f) ==
    IF f = 0 THEN (IF 2 * r >= d THEN q + 1 ELSE q)
    ELSE FractionDigits((q * 10) + ((r * 10) \div d), (r * 10) % d, d, f - 1)

\* x.toFixed(f), f >= 1: sign, integer part, '.', f fraction digits
toFixed(x, f) ==
    LET a == Abs(x[1])
        n == FractionDigits(a \div x[2], a % x[2], x[2], f)
        m == toString(n)
        s == padStart(m, f + 1, "0")
    IN  (IF x[1] < 0 THEN <<"-">> ELSE <<>>)
        \o SubSeq(s, 1, Len(s) - f) \o <<".">>
        \o SubSeq(s, Len(s) - f + 1, Len(s))

\* const header = 'filename,size,angle,vertices,center_x,center_y,hue,
\* saturation\n'
CsvHeader ==
    <<"f", "i", "l", "e", "n", "a", "m", "e", ",", "s", "i", "z", "e", ",",
      "a", "n", "g", "l", "e", ",", "v", "e", "r", "t", "i", "c", "e", "s",
      ",", "c", "e", "n", "t", "e", "r", "_", "x", ",", "c", "e", "n", "t",
      "e", "r", "_", "y", ",", "h", "u", "e", ",", "s", "a", "t", "u", "r",
      "a", "t", "i", "o", "n", "\n">>

\* one element of data.map(d => `${d.filename},${d.size.toFixed(4)},...`)
CsvRow(d) ==
    d.filename \o <<",">> \o toFixed(d.size, 4) \o <<",">>
    \o toFixed(d.angle, 2) \o <<",">> \o toString(d.vertices) \o <<",">>
    \o toFixed(d.center_x, 4) \o <<",">> \o toFixed(d.center_y, 4)
    \o <<",">> \o toFixed(d.hue, 2) \o <<",">> \o toFixed(d.saturation, 4)

\* rows.join(separator)
RECURSIVE join(_, _)
join(rows, separator) ==
    IF rows = <<>> THEN <<>>
    ELSE IF Len(rows) = 1 THEN rows[1]
    ELSE join(SubSeq(rows, 1, Len(rows) - 1), separator)
             \o separator \o rows[Len(rows)]

\* a serialization that joins the rows with commas
createCSVOnOneLine(data) ==
    CsvHeader \o join([k \in 1 .. Len(data) |-> CsvRow(data[k])], <<",">>)

\* return header + rows.join('\n')
createCSV(data) ==
    CsvHeader \o join([k \in 1 .. Len(data) |-> CsvRow(data[k])], <<"\n">>)

\* the pieces of text between the occurrences of separator, in order
RECURSIVE Split(_, _)
Split(text, separator) ==
    IF \A i \in 1 .. Len(text) : text[i] # separator THEN <<text>>
    ELSE LET i == CHOOSE j \in 1 .. Len(text) :
                      /\ text[j] = separator
                      /\ \A h \in 1 .. j - 1 : text[h] # separator
         IN  <<SubSeq(text, 1, i - 1)>>
                 \o Split(SubSeq(text, i + 1, Len(text)), separator)

\* the lines of a text: the pieces between line feeds, a line feed at the
\* very end closing the last line and not opening an empty one
Lines(text) ==
    IF text # <<>> /\ text[Len(text)] = "\n"
    THEN Split(SubSeq(text, 1, Len(text) - 1), "\n")
    ELSE Split(text, "\n")

Fields(line) == Split(line, ",")

---------------------------------------------------------------------------
(* formatFilename called for a total and for indices in increasing order,  *)
(* as the loop of generateData calls it.                                   *)

MaxNames == 3       \* filenames formatted for one total

Totals == {1, 9, 10, 999, 1000, 9999, 10000, 99999, 100000}
Indices == {1, 2, 7, 9, 10, 99, 100, 999, 1000, 9999, 10000, 99999, 100000}

InitNames ==
    /\ total \in Totals
    /\ names = <<>>
    /\ backgrounds = <<>> /\ colors = <<>>
    /\ seed0 = 0 /\ state = "none" /\ calls = <<>> /\ results = "none"
    /\ cfg = "none" /\ source = "none" /\ drawn = <<>>
    /\ params = "none" /\ sampled = 0
    /\ PageLoaded

\* const filename = formatFilename(i, totalCount), for a later i
Format ==
    /\ Len(names) < MaxNames
    /\ \E k \in Indices :
           /\ k <= total
           /\ names # <<>> => k > names[Len(names)].index
           /\ names' = Append(names, [index |-> k,
                                      name |-> formatFilename(k, total)])
    /\ UNCHANGED <<seed0, state, calls, results, cfg, source, drawn, params,
                   sampled, total, backgrounds, colors>>
    /\ UNCHANGED <<pageVars, runVars>>

NextNames == Format

SpecNames == InitNames /\ [][NextNames]_vars

---------------------------------------------------------------------------
(* getBackgroundHSL: the background colour for a backgroundType, as        *)
(* <<hue, saturation, lightness>>, and the number of draws it took.        *)

MaxBackgrounds == 3     \* calls of getBackgroundHSL on one source

Black == <<Zero, Zero, Zero>>
White == <<Zero, Zero, One>>
Gray == <<Zero, Zero, Half>>

\* a random background with black and white exchanged
getBackgroundSwapped(backgroundType, u) ==
    CASE backgroundType = "white" -> [value |-> White, draws |-> 0]
      [] backgroundType = "black" -> [value |-> Black, draws |-> 0]
      [] backgroundType = "gray" -> [value |-> Gray, draws |-> 0]
      [] backgroundType = "random" ->
            LET choice == RFloor(RMul(u, RInt(3)))
            IN  [value |-> IF choice = 0 THEN White
                           ELSE IF choice = 1 THEN Black ELSE Gray,
                 draws |-> 1]
      [] OTHER -> [value |-> Black, draws |-> 0]

\* switch (backgroundType): 'white', 'black', 'gray'; 'random' with
\* choice = Math.floor(random.next() * 3); default
getBackgroundHSL(backgroundType, u) ==
    CASE backgroundType = "white" -> [value |-> White, draws |-> 0]
      [] backgroundType = "black" -> [value |-> Black, draws |-> 0]
      [] backgroundType = "gray" -> [value |-> Gray, draws |-> 0]
      [] backgroundType = "random" ->
            LET choice == RFloor(RMul(u, RInt(3)))
            IN  [value |-> IF choice = 0 THEN Black
                           ELSE IF choice = 1 THEN White ELSE Gray,
                 draws |-> 1]
      [] OTHER -> [value |-> Black, draws |-> 0]

\* type BackgroundType, and a value outside it
BackgroundTypes == {"white", "black", "gray", "random", "none"}

\* the values Math.random() can return, the thirds among them
BackgroundGrid == {R(k, 3 * AmbientDen) : k \in 0 .. (3 * AmbientDen) - 1}

\* the values random.next() can return on the source
NextDraws ==
    IF source.kind = "seeded"
    THEN {Truncate(next(source.state).value)}
    ELSE BackgroundGrid

InitBackground ==
    /\ source \in {[kind |-> "ambient", state |-> <<0, 0>>]}
                  \cup {[kind |-> "seeded", state |-> SeededRandom(s)] :
                           s \in SamplerSeeds}
    /\ backgrounds = <<>> /\ colors = <<>>
    /\ total = 0 /\ names = <<>>
    /\ seed0 = 0 /\ state = "none" /\ calls = <<>> /\ results = "none"
    /\ cfg = "none" /\ drawn = <<>> /\ params = "none" /\ sampled = 0
    /\ PageLoaded

\* getBackgroundHSL(backgroundType, rng) returned b on the draw u
BackgroundReturned(backgroundType, u, b) ==
    /\ backgrounds' = Append(backgrounds,
                             [backgroundType |-> backgroundType,
                              value |-> b.value,
                              drawn |-> IF b.draws = 1 THEN <<u>> ELSE <<>>])
    /\ source' = IF source.kind = "seeded"
                 THEN [source EXCEPT !.state = Advance(@, b.draws)]
                 ELSE source

GetBackground ==
    /\ Len(backgrounds) < MaxBackgrounds
    /\ \E backgroundType \in BackgroundTypes, u \in NextDraws :
           BackgroundReturned(backgroundType, u,
                              getBackgroundHSL(backgroundType, u))
    /\ UNCHANGED <<seed0, state, calls, results, cfg, drawn, params, sampled,
                   total, names, colors>>
    /\ UNCHANGED <<pageVars, runVars>>

NextBackground == GetBackground

SpecBackground == InitBackground /\ [][NextBackground]_vars

---------------------------------------------------------------------------
(* hslToRgb and hslToColor: the fill colour of a shape, as the string      *)
(* handed to the canvas.                                                   *)

ColourDen == 8      \* levels of a draw for a colour attribute

RAbs(a) == <<Abs(a[1]), a[2]>>

\* the integer part of a, towards zero
Trunc(a) == IF a[1] >= 0 THEN a[1] \div a[2] ELSE -((-a[1]) \div a[2])

\* a % b for an integer b > 0: the remainder has the sign of a
Remainder(a, b) == RSub(a, RInt(b * Trunc(RMul(a, R(1, b)))))

\* const c = (1 - Math.abs(2 * l - 1)) * s
chroma(s, l) == RMul(RSub(One, RAbs(RSub(RMul(RInt(2), l), One))), s)

\* const x = c * (1 - Math.abs((h / 60) % 2 - 1))
second(h, c) ==
    RMul(c, RSub(One, RAbs(RSub(Remainder(RMul(h, R(1, 60)), 2), One))))

\* [r, g, b] by the sector of h; every h outside [0, 300) takes the last
sector(h, c, x) ==
    IF RLeq(Zero, h) /\ RLt(h, RInt(60)) THEN <<c, x, Zero>>
    ELSE IF RLeq(RInt(60), h) /\ RLt(h, RInt(120)) THEN <<x, c, Zero>>
    ELSE IF RLeq(RInt(120), h) /\ RLt(h, RInt(180)) THEN <<Zero, c, x>>
    ELSE IF RLeq(RInt(180), h) /\ RLt(h, RInt(240)) THEN <<Zero, x, c>>
    ELSE IF RLeq(RInt(240), h) /\ RLt(h, RInt(300)) THEN <<x, Zero, c>>
    ELSE <<c, Zero, x>>

\* return [r + m, g + m, b + m], m = l - c / 2
shifted(rgb, m) == <<RAdd(rgb[1], m), RAdd(rgb[2], m), RAdd(rgb[3], m)>>

hslToRgb(h, s, l) ==
    shifted(sector(h, chroma(s, l), second(h, chroma(s, l))),
            RSub(l, RMul(chroma(s, l), Half)))

\* Math.round(v): the nearest integer, the larger one on a tie
round(v) == RFloor(RAdd(v, Half))

\* `${n}` for an integer n
template(n) == IF n < 0 THEN <<"-">> \o toString(-n) ELSE toString(n)

\* `rgb(${ri}, ${gi}, ${bi})` with ri = Math.round(r * 255), ...
rgbString(rgb) ==
    <<"r", "g", "b", "(">> \o template(round(RMul(rgb[1], RInt(255))))
    \o <<",", " ">> \o template(round(RMul(rgb[2], RInt(255))))
    \o <<",", " ">> \o template(round(RMul(rgb[3], RInt(255))))
    \o <<")">>

\* src/unnamed/part_001: hslToColor(h, s, l)
hslToColor(h, s, l) == rgbString(hslToRgb(h, s, l))

\* src/src/shapeGenerator.ts: hslToColor(h, s), the lightness fixed at 0.5
hslToColorHS(h, s) == rgbString(hslToRgb(h, s, Half))

ColourGrid == {R(k, ColourDen) : k \in 0 .. ColourDen - 1}

\* colour ranges as the form gives them: the defaults, the whole unit
\* range, and ranges typed into the fields that leave [0, 360] and [0, 1]
HueRanges == {Hue0, <<RInt(0 - 60), RInt(420)>>}
SaturationRanges == {Sat0, Unit0, <<Zero, RInt(2)>>}
LightnessRanges == {Light0, Unit0, <<Half, R(3, 2)>>}

ColourConfigs ==
    {Config("hs", 64, "polygon", "random", Size0, Angle0, Vertices0,
            h, sat, Light0) : h \in HueRanges, sat \in SaturationRanges}
    \cup {Config("hsl", 64, "polygon", "random", Size0, Angle0, Vertices0,
                 h, sat, l) :
             h \in HueRanges, sat \in SaturationRanges,
             l \in LightnessRanges}

InitColor ==
    /\ cfg \in ColourConfigs
    /\ colors = <<>>
    /\ seed0 = 0 /\ state = "none" /\ calls = <<>> /\ results = "none"
    /\ source = "none" /\ drawn = <<>> /\ params = "none" /\ sampled = 0
    /\ total = 0 /\ names = <<>> /\ backgrounds = <<>>
    /\ PageLoaded

\* drawShape computes the fill colour once
Filled(h, sat, l, color) ==
    /\ colors = <<>>
    /\ colors' = <<[hue |-> h, saturation |-> sat, lightness |-> l,
                   color |-> color]>>
    /\ UNCHANGED <<seed0, state, calls, results, cfg, source, drawn, params,
                   sampled, total, names, backgrounds>>
    /\ UNCHANGED <<pageVars, runVars>>

\* a hue and a saturation sampled from the ranges of cfg
hueAt(u) ==
    randomNextFloat(u, sorted(cfg.hueMin, cfg.hueMax)[1],
                    sorted(cfg.hueMin, cfg.hueMax)[2])

saturationAt(u) ==
    randomNextFloat(u, sorted(cfg.saturationMin, cfg.saturationMax)[1],
                    sorted(cfg.saturationMin, cfg.saturationMax)[2])

lightnessAt(u) ==
    randomNextFloat(u, sorted(cfg.lightnessMin, cfg.lightnessMax)[1],
                    sorted(cfg.lightnessMin, cfg.lightnessMax)[2])

\* drawShape: const fillColor = this.hslToColor(hue, saturation)
FillHS ==
    /\ cfg.variant = "hs"
    /\ \E u1, u2 \in ColourGrid :
           Filled(hueAt(u1), saturationAt(u2), Half,
                  hslToColorHS(hueAt(u1), saturationAt(u2)))

\* drawShape: const fillColor = this.hslToColor(hue, saturation, lightness)
FillHSL ==
    /\ cfg.variant = "hsl"
    /\ \E u1, u2, u3 \in ColourGrid :
           Filled(hueAt(u1), saturationAt(u2), lightnessAt(u3),
                  hslToColor(hueAt(u1), saturationAt(u2), lightnessAt(u3)))

NextColor == FillHS \/ FillHSL

SpecColor == InitColor /\ [][NextColor]_vars

---------------------------------------------------------------------------
(* UIController: the form, validateConfig, showPreview and generateData.   *)
(* generateData is an async function: it runs from a click to its first    *)
(* await, and then from the settling of each awaited promise to the next   *)
(* await or to its end.  pc names the await it is suspended at.            *)

MaxCount == 1       \* small sample counts 0 .. MaxCount of the form
MaxClicks == 2      \* clicks on the two buttons

BatchSize == 100
PREVIEW_COUNT == 9

\* what parseInt returns for a text that does not start with a number,
\* '.5' or 'abc': a value apart from every integer of the model
NaN == -2147483647

\* a < b and a <= b on Numbers: false when either side is NaN
Less(a, b) == a # NaN /\ b # NaN /\ a < b
LessEq(a, b) == a # NaN /\ b # NaN /\ a <= b

\* what getGenerationConfig returns: seed is <<>> for null, <<n>> for n; of
\* the fields parsed by parseInt, sampleCount may be NaN
GenerationConfig(sampleCount, imageSize, seed, sz, vt) ==
    [sampleCount |-> sampleCount, imageSize |-> imageSize, seed |-> seed,
     sizeMin |-> sz[1], sizeMax |-> sz[2],
     angleMin |-> Angle0[1], angleMax |-> Angle0[2],
     verticesMin |-> vt[1], verticesMax |-> vt[2],
     hueMin |-> Hue0[1], hueMax |-> Hue0[2],
     saturationMin |-> Sat0[1], saturationMax |-> Sat0[2]]

\* the contents of the form when a button is clicked
Forms ==
    {GenerationConfig(n, 64, <<42>>, Size0, Vertices0) : n \in 0 .. MaxCount}
    \cup {GenerationConfig(2, 64, <<1>>, Size0, Vertices0),
          GenerationConfig(2, 16, <<>>, Rev(Size0), Rev(Vertices0)),
          GenerationConfig(1, 8, <<42>>, Size0, Vertices0),
          GenerationConfig(1, 64, <<42>>, Size0, <<2, 8>>),
          GenerationConfig(NaN, 64, <<42>>, Size0, Vertices0),
          GenerationConfig(BatchSize + 1, 64, <<42>>, Size0, Vertices0)}

\* Math.floor(Math.random() * 2147483647)
AmbientSeeds == {0, 2147483646}

\* Date.now(), as limbs: 1700000000000
Clocks == {<<25939941, 26624>>}

\* validateConfig: the message, or "null"
validateConfig(c) ==
    IF LessEq(c.sampleCount, 0) THEN "sampleCount"
    ELSE IF Less(c.imageSize, 16) THEN "imageSize"
    ELSE IF Less(c.verticesMin, 3) THEN "verticesMin"
    ELSE "null"

\* the arguments generateData and showPreview pass to generateRandomParams
Arguments(c, margin) ==
    [imageSize |-> c.imageSize, margin |-> margin,
     sizeMin |-> c.sizeMin, sizeMax |-> c.sizeMax,
     angleMin |-> c.angleMin, angleMax |-> c.angleMax,
     verticesMin |-> c.verticesMin, verticesMax |-> c.verticesMax,
     hueMin |-> c.hueMin, hueMax |-> c.hueMax,
     saturationMin |-> c.saturationMin, saturationMax |-> c.saturationMax]

\* the next n values of a SeededRandom in state st, each with the state it
\* leaves behind
RECURSIVE SeededStream(_, _)
SeededStream(st, n) ==
    IF n = 0 THEN <<>>
    ELSE LET r == next(st)
         IN  <<[value |-> Truncate(r.value), state |-> r.state]>>
             \o SeededStream(r.state, n - 1)

\* the record generateRandomParams returned and the state of the generator
\* after the draws it took
Taken(stream, p) ==
    [params |-> [size |-> p.size, angle |-> p.angle, vertices |-> p.vertices,
                 centerX |-> p.centerX, centerY |-> p.centerY,
                 hue |-> p.hue, saturation |-> p.saturation],
     state |-> stream[p.draws].state]

\* generateRandomParams on the values of a stream
SampleOn(stream, args) ==
    Taken(stream,
          generateRandomParams([j \in 1 .. 7 |-> stream[j].value], args))

\* generateRandomParams(rng, ...) on a SeededRandom in state st: the record
\* and the state of the generator afterwards
SampleFrom(st, c, margin) ==
    SampleOn(SeededStream(st, 7), Arguments(c, margin))

\* ShapeGenerator.render(params): the picture on the canvas afterwards.
\* drawShape reads points[0], which exists: a validated config has
\* verticesMin >= 3 and so every record has vertices >= 3.
render(gc, p) == [imageSize |-> gc.imageSize, margin |-> gc.margin, shape |-> p]

\* folder.file(name, data): a new entry, or the entry of that name replaced
file(entries, name, data) ==
    IF \E k \in 1 .. Len(entries) : entries[k].name = name
    THEN [k \in 1 .. Len(entries) |->
             IF entries[k].name = name THEN [name |-> name, data |-> data]
             ELSE entries[k]]
    ELSE Append(entries, [name |-> name, data |-> data])

\* metadata.push({ filename, size: params.size, ... })
MetadataRow(filename, p) ==
    [filename |-> filename, size |-> p.size, angle |-> p.angle,
     vertices |-> p.vertices, center_x |-> p.centerX, center_y |-> p.centerY,
     hue |-> p.hue, saturation |-> p.saturation]

\* a loop that stops one sample short
StopsShort(k, totalCount) == Less(k, totalCount)

\* for (let i = 1; i <= totalCount; i++)
InLoop(k, totalCount) == LessEq(k, totalCount)

\* progress reported at the multiples of the batch size only
ReportsBatchesOnly(k, totalCount) == k % BatchSize = 0

\* if (i % batchSize === 0 || i === totalCount)
ReportsProgress(k, totalCount) == k % BatchSize = 0 \/ k = totalCount

\* one item of the grid: the data URL of the canvas and the record (the
\* second appendChild of the same item leaves one child)
PreviewItem(gc, p) == [image |-> render(gc, p), params |-> p]

\* showPreview's loop: the items appended to the grid by its last n
\* iterations
RECURSIVE PreviewItems(_, _, _, _)
PreviewFrom(s, c, margin, n) ==
    <<PreviewItem([imageSize |-> c.imageSize, margin |-> margin], s.params)>>
    \o PreviewItems(s.state, c, margin, n - 1)
PreviewItems(st, c, margin, n) ==
    IF n = 0 THEN <<>>
    ELSE PreviewFrom(SampleFrom(st, c, margin), c, margin, n)

\* the grids showPreview builds, by form, clock and margin
PreviewGrids ==
    {[form |-> c, now |-> t, margin |-> m,
      items |-> PreviewItems(t, c, m, PREVIEW_COUNT)] :
        c \in {f \in Forms : validateConfig(f) = "null"},
        t \in Clocks, m \in {Margin}}

\* alert(error); return
Rejected(error) ==
    /\ alerts' = Append(alerts, <<"invalid", error>>)
    /\ UNCHANGED <<canvasConfig, generatorConfig, canvas, generateBtn,
                   previewBtn, progressContainer, previewGrid, saved>>
    /\ UNCHANGED runVars

\* showPreview() with c read from the form
showPreview(c) ==
    IF validateConfig(c) # "null" THEN Rejected(validateConfig(c))
    ELSE \E t \in Clocks :
             LET grid == CHOOSE g \in PreviewGrids :
                             /\ g.form = c /\ g.now = t
                             /\ g.margin = canvasConfig.margin
             IN  /\ previewGrid' = grid.items
                 /\ canvasConfig' =
                        [canvasConfig EXCEPT !.imageSize = c.imageSize]
                 /\ generatorConfig' =
                        [generatorConfig EXCEPT !.imageSize = c.imageSize]
                 /\ canvas' = [width |-> c.imageSize,
                               picture |-> grid.items[PREVIEW_COUNT].image]
                 /\ UNCHANGED <<generateBtn, previewBtn, progressContainer,
                                alerts, saved>>
                 /\ UNCHANGED runVars

\* a click on #preview-btn
ShowPreview ==
    /\ ~previewBtn.disabled
    /\ clicks < MaxClicks
    /\ clicks' = clicks + 1
    /\ \E c \in Forms : showPreview(c)
    /\ UNCHANGED libVars

\* the loop body up to the call of toBlob: the record s.params is sampled,
\* rendered and the canvas asked for its blob
Body(k, s, imgs, meta, hist, picture, cv) ==
    /\ iter' = k
    /\ rng' = s.state
    /\ current' = s.params
    /\ history' = Append(hist, s.params)
    /\ canvas' = [cv EXCEPT !.picture = picture]
    /\ blob' = picture
    /\ images' = imgs
    /\ metadata' = meta
    /\ csv' = "none"
    /\ pc' = "awaitBlob"

\* after the loop: createCSV, zip.file and the call of zip.generateAsync
Package(k, st, imgs, meta, hist, cv) ==
    /\ iter' = k
    /\ rng' = st
    /\ history' = hist
    /\ canvas' = cv
    /\ images' = imgs
    /\ metadata' = meta
    /\ csv' = createCSV(meta)
    /\ pc' = "awaitZip"
    /\ UNCHANGED <<current, blob>>

Rendered(k, s, imgs, meta, hist, gc, cv) ==
    Body(k, s, imgs, meta, hist, render(gc, s.params), cv)

\* generateData from the loop test for index k to the next await
Iterate(k, st, imgs, meta, hist, c, gc, cv) ==
    IF InLoop(k, c.sampleCount)
    THEN Rendered(k, SampleFrom(st, c, canvasConfig.margin),
                  imgs, meta, hist, gc, cv)
    ELSE Package(k, st, imgs, meta, hist, cv)

\* a run that leaves both buttons as they are
buttonsLeftEnabled == UNCHANGED <<generateBtn, previewBtn>>

\* generateBtn.disabled = true; previewBtn.disabled = true;
\* generateBtn.innerHTML = '... 生成中...'
disableButtons ==
    /\ generateBtn' = [disabled |-> TRUE, innerHTML |-> "busy"]
    /\ previewBtn' = [disabled |-> TRUE]

\* generateData() with c read from the form, up to its first await
generateData(c) ==
    IF validateConfig(c) # "null" THEN Rejected(validateConfig(c))
    ELSE \E s0 \in (IF c.seed = <<>> THEN AmbientSeeds ELSE {c.seed[1]}) :
             LET gc == [generatorConfig EXCEPT !.imageSize = c.imageSize]
             IN  /\ disableButtons
                 /\ canvasConfig' =
                        [canvasConfig EXCEPT !.imageSize = c.imageSize]
                 /\ generatorConfig' = gc
                 /\ config' = c
                 /\ progressCalls' = <<>>
                 /\ outcome' = "running"
                 /\ Iterate(1, SeededRandom(s0), <<>>, <<>>, <<>>, c, gc,
                            [width |-> c.imageSize, picture |-> "blank"])
                 /\ UNCHANGED <<progressContainer, previewGrid, alerts, saved>>

\* a click on #generate-btn
ClickGenerate ==
    /\ ~generateBtn.disabled
    /\ clicks < MaxClicks
    /\ clicks' = clicks + 1
    /\ \E c \in Forms : generateData(c)
    /\ UNCHANGED libVars

\* toBlob's promise resolves: the file and the row are added, progress is
\* reported and the timer awaited, or the loop goes on to the next await
BlobResolved ==
    /\ pc = "awaitBlob"
    /\ LET filename == formatFilename(iter, config.sampleCount)
           imgs == file(images, filename, blob)
           meta == Append(metadata, MetadataRow(filename, current))
       IN  IF ReportsProgress(iter, config.sampleCount)
           THEN /\ progressContainer' =
                       [display |-> "block",
                        text |-> <<iter, config.sampleCount>>]
                /\ progressCalls' =
                       Append(progressCalls, <<iter, config.sampleCount>>)
                /\ images' = imgs
                /\ metadata' = meta
                /\ pc' = "yield"
                /\ UNCHANGED <<rng, iter, current, blob, canvas, csv, history>>
           ELSE /\ Iterate(iter + 1, rng, imgs, meta, history, config,
                           generatorConfig, canvas)
                /\ UNCHANGED <<progressContainer, progressCalls>>
    /\ UNCHANGED <<config, outcome, canvasConfig, generatorConfig,
                   generateBtn, previewBtn, previewGrid, alerts, saved, clicks>>
    /\ UNCHANGED libVars

\* the zero-delay timer fires: the loop goes on
TimerFired ==
    /\ pc = "yield"
    /\ Iterate(iter + 1, rng, images, metadata, history, config,
               generatorConfig, canvas)
    /\ UNCHANGED <<config, outcome, progressCalls>>
    /\ UNCHANGED <<canvasConfig, generatorConfig, generateBtn, previewBtn,
                   progressContainer, previewGrid, alerts, saved, clicks>>
    /\ UNCHANGED libVars

\* a finally that leaves the buttons as they are
LeavesDisabled ==
    /\ pc' = "idle"
    /\ UNCHANGED <<generateBtn, previewBtn>>
    /\ UNCHANGED <<canvasConfig, generatorConfig, canvas, previewGrid, clicks>>
    /\ UNCHANGED <<config, rng, iter, current, blob, images, metadata, csv,
                   history, progressCalls>>
    /\ UNCHANGED libVars

\* finally: both buttons are enabled again
Finally ==
    /\ generateBtn' = [disabled |-> FALSE, innerHTML |-> "originalText"]
    /\ previewBtn' = [disabled |-> FALSE]
    /\ pc' = "idle"
    /\ UNCHANGED <<canvasConfig, generatorConfig, canvas, previewGrid, clicks>>
    /\ UNCHANGED <<config, rng, iter, current, blob, images, metadata, csv,
                   history, progressCalls>>
    /\ UNCHANGED libVars

\* saveAs(content, 'shape-dataset.zip'): the archive, and with it the
\* config and the metadata of the run it came from
Content ==
    [name |-> "shape-dataset.zip", images |-> images, metadata_csv |-> csv,
     config |-> config, metadata |-> metadata]

\* a catch that hands what the run has gathered so far to saveAs
SavesPartial(message) ==
    /\ alerts' = Append(alerts, <<"failed", message>>)
    /\ progressContainer' = [progressContainer EXCEPT !.display = "none"]
    /\ outcome' = "failed"
    /\ saved' = Append(saved, Content)
    /\ Finally

\* catch (error): the alert, hideProgress, then finally
Caught(message) ==
    /\ alerts' = Append(alerts, <<"failed", message>>)
    /\ progressContainer' = [progressContainer EXCEPT !.display = "none"]
    /\ outcome' = "failed"
    /\ UNCHANGED saved
    /\ Finally

\* toBlob's promise rejects: the canvas delivered no blob
BlobFailed ==
    /\ pc = "awaitBlob"
    /\ Caught("Failed to create blob")

\* zip.generateAsync resolves: saveAs, hideProgress, the alert, finally
ZipGenerated ==
    /\ pc = "awaitZip"
    /\ saved' = Append(saved, Content)
    /\ progressContainer' = [progressContainer EXCEPT !.display = "none"]
    /\ alerts' = Append(alerts, <<"completed", config.sampleCount>>)
    /\ outcome' = "completed"
    /\ Finally

\* zip.generateAsync rejects
ZipFailed ==
    /\ pc = "awaitZip"
    /\ Caught("generateAsync")

\* saveAs throws
SaveFailed ==
    /\ pc = "awaitZip"
    /\ Caught("saveAs")

InitBatch ==
    /\ PageLoaded
    /\ seed0 = 0 /\ state = "none" /\ calls = <<>> /\ results = "none"
    /\ cfg = "none" /\ source = "none" /\ drawn = <<>>
    /\ params = "none" /\ sampled = 0
    /\ total = 0 /\ names = <<>> /\ backgrounds = <<>>
    /\ colors = <<>>

NextBatch ==
    \/ ShowPreview
    \/ ClickGenerate
    \/ BlobResolved
    \/ BlobFailed
    \/ TimerFired
    \/ ZipGenerated
    \/ ZipFailed
    \/ SaveFailed

SpecBatch == InitBatch /\ [][NextBatch]_vars

---------------------------------------------------------------------------
(* createCSV called on metadata tables, built row by row as the loop of    *)
(* generateData builds them.                                               *)

MaxRows == 3        \* rows pushed to one metadata table

ShapeParams(size, angle, vertices, centerX, centerY, hue, saturation) ==
    [size |-> size, angle |-> angle, vertices |-> vertices,
     centerX |-> centerX, centerY |-> centerY,
     hue |-> hue, saturation |-> saturation]

\* records of the sampler and of its edges: the lowest and the highest
\* values, values that round up to the next digit, a circle's zeros, and an
\* angle below zero
Records ==
    {ShapeParams(R(3, 10), Zero, 3, Half, Half, Zero, Half),
     ShapeParams(One, RInt(360), 8, R(1, 3), R(2, 3), RInt(360), One),
     ShapeParams(R(99995, 100000), R(1995, 1000), 12, R(5, 64),
                 R(59, 64), R(359995, 1000), R(99999, 100000)),
     ShapeParams(R(5, 4), Zero, 0, Half, Half, R(1801, 10), Zero),
     ShapeParams(R(59, 80), R(0 - 91, 2), 5, R(1993, 5120),
                 R(10807, 20480), RInt(180), R(7, 8))}

InitCsv ==
    /\ seed0 = 0 /\ state = "none" /\ calls = <<>> /\ results = "none"
    /\ cfg = "none" /\ source = "none" /\ drawn = <<>>
    /\ params = "none" /\ sampled = 0
    /\ total = 0 /\ names = <<>> /\ backgrounds = <<>>
    /\ colors = <<>>
    /\ PageLoaded

\* metadata.push({ filename, size: params.size, ... })
Push ==
    /\ csv = "none"
    /\ Len(metadata) < MaxRows
    /\ \E p \in Records :
           metadata' = Append(metadata,
                              MetadataRow(formatFilename(Len(metadata) + 1,
                                                         MaxRows), p))
    /\ UNCHANGED <<pc, config, rng, iter, current, blob, images, csv,
                   history, progressCalls, outcome>>
    /\ UNCHANGED <<libVars, pageVars>>

\* const csv = this.createCSV(metadata)
Serialize ==
    /\ csv = "none"
    /\ csv' = createCSV(metadata)
    /\ UNCHANGED <<pc, config, rng, iter, current, blob, images, metadata,
                   history, progressCalls, outcome>>
    /\ UNCHANGED <<libVars, pageVars>>

NextCsv == Push \/ Serialize

SpecCsv == InitCsv /\ [][NextCsv]_vars

---------------------------------------------------------------------------
(* Properties of the generator *)

\* the state instance i was in before its k-th call
StateBefore(i, k) ==
    IF k = 1 THEN SeededRandom(seed0) ELSE results[i][k - 1].state

\* C3: two SeededRandom instances constructed with the same seed and taken
\* through the same sequence of next / nextFloat / nextInt calls return the
\* same value at every position both have reached, however their calls
\* are interleaved.
C3_SameSeedSameValues ==
    \A k \in 1 .. Len(calls) :
        (k <= Len(results[1]) /\ k <= Len(results[2]))
            => results[1][k].value = results[2][k].value

\* both instances have made two calls, at different paces, and the stream is
\* not constant
C3_Witness ==
    /\ Len(results[1]) = MaxCalls
    /\ Len(results[2]) >= 2
    /\ calls[1] = calls[2]
    /\ results[2][1].value # results[2][2].value

\* C4 (as claimed): for a seed in [0, 2^32) the stored state of every
\* instance stays in [0, 2^32) after the constructor and after every call.
C4_StateStaysUint32 ==
    seed0 >= 0 =>
        \A i \in Instances : state[i][1] >= 0 /\ state[i][1] < W

\* C5: every value v / 2^32 returned by next() has 0 <= v < 2^32, that is,
\* lies in [0, 1).
C5_NextInUnitInterval ==
    \A i \in Instances : \A k \in 1 .. Len(results[i]) :
        calls[k][1] = "next" =>
            LET v == results[i][k].value
            IN  /\ v[1] >= 0 /\ v[1] < W
                /\ v[2] >= 0 /\ v[2] < W

\* next() has returned a value of at least 1/2: the Int32 before the final
\* >>> 0 was negative
C5_Witness ==
    \E i \in Instances : \E k \in 1 .. Len(results[i]) :
        calls[k][1] = "next" /\ results[i][k].value[1] >= HalfW

\* C6: nextInt(min, max), for integers min <= max, returns
\* floor(nextFloat(min, max + 1)), an integer n with min <= n <= max, and
\* advances the generator by exactly one next() draw.
C6_NextIntInRange ==
    \A i \in Instances : \A k \in 1 .. Len(results[i]) :
        (calls[k][1] = "nextInt" /\ calls[k][2] <= calls[k][3]) =>
            LET r == results[i][k]
                f == nextFloat(StateBefore(i, k), calls[k][2], calls[k][3] + 1)
            IN  /\ r.value >= calls[k][2]
                /\ r.value <= calls[k][3]
                /\ r.value = Floor(f.value)
                /\ r.state = next(StateBefore(i, k)).state

\* one instance has drawn both ends of one range: min and max are reachable
C6_Witness ==
    \E i \in Instances : \E j, k \in 1 .. Len(results[i]) :
        /\ calls[j][1] = "nextInt" /\ calls[k] = calls[j]
        /\ calls[j][2] < calls[j][3]
        /\ results[i][j].value = calls[j][2]
        /\ results[i][k].value = calls[j][3]

---------------------------------------------------------------------------
(* Properties of the sampler *)

Lo(a, b) == IF RLeq(a, b) THEN a ELSE b
Hi(a, b) == IF RLeq(a, b) THEN b ELSE a
Within(v, a, b) == RLeq(Lo(a, b), v) /\ RLeq(v, Hi(a, b))

\* radius = size * (imageSize / 2 - margin), in pixels
RadiusPx(p, c) == RMul(p.size, RSub(R(c.imageSize, 2), RInt(c.margin)))

\* margin <= center * imageSize - radius and
\* center * imageSize + radius <= imageSize - margin, on both axes
Contained(p, c) ==
    \A center \in {p.centerX, p.centerY} :
        LET px == RMul(center, RInt(c.imageSize))
        IN  /\ RLeq(RInt(c.margin), RSub(px, RadiusPx(p, c)))
            /\ RLeq(RAdd(px, RadiusPx(p, c)), RInt(c.imageSize - c.margin))

InSweep(c) ==
    /\ RLeq(R(3, 10), Lo(c.sizeMin, c.sizeMax))
    /\ RLeq(Hi(c.sizeMin, c.sizeMax), One)
    /\ c.imageSize \in {16, 64, 256}
    /\ c.margin = 5

\* C1: every record sampled with a size range inside [0.3, 1.0], imageSize
\* in {16, 64, 256} and margin 5 has center * imageSize -+ radius within
\* [margin, imageSize - margin] on both axes, whatever the draws.
C1_ContainedInSweep ==
    (sampled > 0 /\ InSweep(cfg)) => Contained(params, cfg)

\* a record of the sweep whose shape touches the left margin off-centre
C1_Witness ==
    /\ sampled > 0 /\ InSweep(cfg)
    /\ params.centerX # Half
    /\ RSub(RMul(params.centerX, RInt(cfg.imageSize)), RadiusPx(params, cfg))
           = RInt(cfg.margin)

\* C2 (as claimed): every record the sampler returns, for every size range
\* and every imageSize >= 16 with margin 5, is contained, the forced centre
\* included.
C2_AlwaysContained ==
    sampled > 0 => Contained(params, cfg)

IsPolygon(p, c) == c.variant = "hsl" => p.shapeType = "polygon"

\* C7 (as claimed): every polygon record has a vertex count >= 3, for every
\* configured (verticesMin, verticesMax), pairs below 3 included.
C7_VerticesAtLeast3 ==
    (sampled > 0 /\ IsPolygon(params, cfg)) => params.vertices >= 3

\* the arguments with every range given in sorted order
SortedConfig(c) ==
    Config(c.variant, c.imageSize, c.shapeType, c.positionType,
           <<Lo(c.sizeMin, c.sizeMax), Hi(c.sizeMin, c.sizeMax)>>,
           <<Lo(c.angleMin, c.angleMax), Hi(c.angleMin, c.angleMax)>>,
           IF c.verticesMin <= c.verticesMax
           THEN <<c.verticesMin, c.verticesMax>>
           ELSE <<c.verticesMax, c.verticesMin>>,
           <<Lo(c.hueMin, c.hueMax), Hi(c.hueMin, c.hueMax)>>,
           <<Lo(c.saturationMin, c.saturationMax),
             Hi(c.saturationMin, c.saturationMax)>>,
           <<Lo(c.lightnessMin, c.lightnessMax),
             Hi(c.lightnessMin, c.lightnessMax)>>)

\* the record the sampler returns for arguments c on the values drawn
Resampled(c) ==
    LET random == [i \in 1 .. 9 |-> IF i <= Len(drawn) THEN drawn[i] ELSE Zero]
    IN  CASE c.variant = "hs" -> generateRandomParams(random, c)
          [] c.variant = "rgb" -> generateRandomParamsRGB(random, c)
          [] c.variant = "hsl" -> generateRandomParamsHSL(random, c)

\* size, angle and the colour attributes lie in their ranges as given
FloatsWithin(p, c) ==
    /\ Within(p.size, c.sizeMin, c.sizeMax)
    /\ IsPolygon(p, c) => Within(p.angle, c.angleMin, c.angleMax)
    /\ c.variant \in {"hs", "hsl"} =>
           /\ Within(p.hue, c.hueMin, c.hueMax)
           /\ Within(p.saturation, c.saturationMin, c.saturationMax)
    /\ c.variant = "hsl" =>
           Within(p.lightness, c.lightnessMin, c.lightnessMax)
    /\ c.variant = "rgb" =>
           /\ Within(p.colorR, c.colorRMin, c.colorRMax)
           /\ Within(p.colorG, c.colorGMin, c.colorGMax)
           /\ Within(p.colorB, c.colorBMin, c.colorBMax)

VerticesWithin(p, c) ==
    Within(RInt(p.vertices), RInt(c.verticesMin), RInt(c.verticesMax))

\* C8 (as claimed): every attribute sampled from a range given with
\* min > max, the vertex count included, lies between the two bounds, and
\* the record is the one the sorted bounds give.
C8_EveryRangeNormalized ==
    sampled > 0 =>
        /\ FloatsWithin(params, cfg)
        /\ IsPolygon(params, cfg) => VerticesWithin(params, cfg)
        /\ params = Resampled(SortedConfig(cfg))

\* C8 (amended): the same, the vertex count being claimed only when the
\* larger of its two bounds is at least 3.
C8_RangesNormalized ==
    sampled > 0 =>
        /\ FloatsWithin(params, cfg)
        /\ (IsPolygon(params, cfg)
                /\ Max(cfg.verticesMin, cfg.verticesMax) >= 3)
               => VerticesWithin(params, cfg)
        /\ params = Resampled(SortedConfig(cfg))

\* a record sampled from ranges all given with min > max, off the midpoint
C8_Witness ==
    /\ sampled > 0
    /\ RLt(cfg.sizeMax, cfg.sizeMin) /\ RLt(cfg.angleMax, cfg.angleMin)
    /\ cfg.verticesMax < cfg.verticesMin
    /\ RLt(params.size, RAdd(cfg.sizeMax, R(1, 10)))
    /\ params.vertices > 3

\* minCenter = (size * (imageSize / 2 - margin) + margin) / imageSize
MinCenter(p, c) ==
    RMul(RAdd(RadiusPx(p, c), RInt(c.margin)), R(1, c.imageSize))

DrawsCentre(c) == ~(c.variant = "hsl" /\ c.positionType = "center")

\* C9: whenever minCenter >= maxCenter = 1 - minCenter the centre returned
\* is exactly (0.5, 0.5), in particular for size 1.0, imageSize 16 and
\* margin 5; otherwise both coordinates lie in [minCenter, maxCenter].
C9_DegenerateSizeCentred ==
    (sampled > 0 /\ DrawsCentre(cfg)) =>
        LET minCenter == MinCenter(params, cfg)
            maxCenter == RSub(One, minCenter)
        IN  IF RLeq(maxCenter, minCenter)
            THEN params.centerX = Half /\ params.centerY = Half
            ELSE /\ Within(params.centerX, minCenter, maxCenter)
                 /\ Within(params.centerY, minCenter, maxCenter)
                 /\ RLeq(minCenter, maxCenter)

\* size 1.0 at imageSize 16, margin 5: the centre is forced
C9_Witness ==
    /\ sampled > 0 /\ cfg.variant = "hs"
    /\ cfg.imageSize = 16 /\ cfg.margin = 5 /\ params.size = One
    /\ params.centerX = Half /\ params.centerY = Half
    /\ params.draws = 5

\* the draws taken for the kind, for the centre, and for angle and vertices
KindDraws(c) == IF c.shapeType = "both" THEN 1 ELSE 0

CentreDraws(p, c) ==
    IF c.positionType = "center" THEN 0
    ELSE IF RLeq(RSub(One, MinCenter(p, c)), MinCenter(p, c)) THEN 0 ELSE 2

PolygonDraws(p) == IF p.shapeType = "circle" THEN 0 ELSE 2

\* C17: whenever the returned shapeType is 'circle', angle = 0 and
\* vertices = 0 and no draw is consumed for them (the draw after the centre
\* feeds the hue and three draws follow the centre in all); whenever it is
\* 'polygon', the angle is drawn from the sorted angle range and lies in
\* it, and vertices is the integer nextInt(max(3, vMin), vMax) gives for
\* the draw after the angle's.
C17_CircleRecords ==
    (sampled > 0 /\ cfg.variant = "hsl") =>
        LET n == KindDraws(cfg) + 1 + CentreDraws(params, cfg)
        IN  /\ params.shapeType \in {"circle", "polygon"}
            /\ params.shapeType = "circle" =>
                   /\ params.angle = Zero /\ params.vertices = 0
                   /\ Len(drawn) = n + 3
                   /\ params.hue = randomNextFloat(drawn[n + 1],
                                       Lo(cfg.hueMin, cfg.hueMax),
                                       Hi(cfg.hueMin, cfg.hueMax))
            /\ params.shapeType = "polygon" =>
                   /\ Within(params.angle, cfg.angleMin, cfg.angleMax)
                   /\ params.angle = randomNextFloat(drawn[n + 1],
                                         Lo(cfg.angleMin, cfg.angleMax),
                                         Hi(cfg.angleMin, cfg.angleMax))
                   /\ params.vertices \in Int
                   /\ params.vertices =
                          randomNextInt(drawn[n + 2],
                              Max(3, IF cfg.verticesMin <= cfg.verticesMax
                                     THEN cfg.verticesMin
                                     ELSE cfg.verticesMax),
                              Max(cfg.verticesMin, cfg.verticesMax))
                   /\ Len(drawn) = n + 5
                   /\ params.hue = randomNextFloat(drawn[n + 3],
                                       Lo(cfg.hueMin, cfg.hueMax),
                                       Hi(cfg.hueMin, cfg.hueMax))

\* a circle returned in mode 'both' with its centre drawn: seven draws, the
\* fifth of them, not zero, feeding a hue that is not zero
C17_Witness ==
    /\ sampled > 0 /\ cfg.variant = "hsl" /\ cfg.shapeType = "both"
    /\ params.shapeType = "circle"
    /\ params.angle = Zero /\ params.vertices = 0
    /\ Len(drawn) = 7 /\ drawn[5] # Zero /\ params.hue # Zero

\* the kind, the size and the number of draws of the record returned
KindSelected ==
    (sampled > 0 /\ cfg.variant = "hsl") =>
        LET k == KindDraws(cfg)
        IN  /\ cfg.shapeType = "both" =>
                   params.shapeType = (IF RLt(drawn[1], Half) THEN "polygon"
                                       ELSE "circle")
            /\ cfg.shapeType # "both" =>
                   (k = 0 /\ params.shapeType = cfg.shapeType)
            /\ params.size = randomNextFloat(drawn[k + 1],
                                  Lo(cfg.sizeMin, cfg.sizeMax),
                                  Hi(cfg.sizeMin, cfg.sizeMax))
            /\ Len(drawn) = k + 1 + CentreDraws(params, cfg)
                                + PolygonDraws(params) + 3

\* a call on a seeded generator: the first value drawn is the generator's
\* next() and the generator is left advanced by the draws taken
KindDrawnFirst ==
    (sampled' = sampled + 1 /\ cfg.variant = "hsl"
         /\ source.kind = "seeded") =>
        /\ drawn'[1] = Truncate(next(source.state).value)
        /\ source'.state = Advance(source.state, Len(drawn'))

\* C18: with mode 'both' exactly one draw u is consumed before any other
\* draw (the size comes from the second draw) and the kind is 'polygon'
\* when u < 0.5 and 'circle' when u >= 0.5; with mode 'polygon' or 'circle'
\* the kind returned is the mode and no draw is consumed for it (the size
\* comes from the first draw).
C18_ShapeKindSelection == []KindSelected /\ [][KindDrawnFirst]_vars

\* mode 'both' with u exactly 0.5: a circle
C18_Witness ==
    /\ sampled > 0 /\ cfg.variant = "hsl" /\ cfg.shapeType = "both"
    /\ drawn[1] = Half /\ params.shapeType = "circle"
    /\ drawn[2] # Half

\* C20: in position mode 'center' the centre returned is (0.5, 0.5) for
\* every size and imageSize, and no draw is consumed for it: the draw after
\* the size's feeds the angle of a polygon or the hue of a circle.
C20_CentreMode ==
    (sampled > 0 /\ cfg.variant = "hsl" /\ cfg.positionType = "center") =>
        LET k == KindDraws(cfg)
        IN  /\ params.centerX = Half /\ params.centerY = Half
            /\ Len(drawn) = k + 1 + PolygonDraws(params) + 3
            /\ params.shapeType = "polygon" =>
                   params.angle = randomNextFloat(drawn[k + 2],
                                      Lo(cfg.angleMin, cfg.angleMax),
                                      Hi(cfg.angleMin, cfg.angleMax))
            /\ params.shapeType = "circle" =>
                   params.hue = randomNextFloat(drawn[k + 2],
                                    Lo(cfg.hueMin, cfg.hueMax),
                                    Hi(cfg.hueMin, cfg.hueMax))

\* mode 'center' with a size whose centre range is not empty (the centre
\* would be drawn in mode 'random'): a polygon on six draws, the second
\* not 0.5
C20_Witness ==
    /\ sampled > 0 /\ cfg.variant = "hsl" /\ cfg.positionType = "center"
    /\ cfg.shapeType = "polygon" /\ cfg.imageSize = 64
    /\ RLt(MinCenter(params, cfg), RSub(One, MinCenter(params, cfg)))
    /\ params.centerX = Half /\ params.centerY = Half
    /\ Len(drawn) = 6 /\ drawn[2] # Half

\* the centre of p was forced to (0.5, 0.5): by the position mode, or by
\* minCenter >= maxCenter
CentreForced(p, c) ==
    \/ c.variant = "hsl" /\ c.positionType = "center"
    \/ RLeq(RSub(One, MinCenter(p, c)), MinCenter(p, c))

IsCircle(p, c) == c.variant = "hsl" /\ p.shapeType = "circle"

\* the record returned reads the values drawn in the order kind (mode
\* 'both'), size, centerX, centerY (unless forced), angle, vertices (unless
\* a circle), hue, saturation, lightness (the shape-type variant), and
\* nothing else was drawn
DrawsInOrder(p, c, d) ==
    LET k == IF c.variant = "hsl" THEN KindDraws(c) ELSE 0
        n == k + 1 + (IF CentreForced(p, c) THEN 0 ELSE 2)
        m == n + (IF IsCircle(p, c) THEN 0 ELSE 2)
    IN  /\ p.size = randomNextFloat(d[k + 1], Lo(c.sizeMin, c.sizeMax),
                                    Hi(c.sizeMin, c.sizeMax))
        /\ CentreForced(p, c) => (p.centerX = Half /\ p.centerY = Half)
        /\ ~CentreForced(p, c) =>
               /\ p.centerX = randomNextFloat(d[k + 2], MinCenter(p, c),
                                              RSub(One, MinCenter(p, c)))
               /\ p.centerY = randomNextFloat(d[k + 3], MinCenter(p, c),
                                              RSub(One, MinCenter(p, c)))
        /\ IsCircle(p, c) => (p.angle = Zero /\ p.vertices = 0)
        /\ ~IsCircle(p, c) =>
               /\ p.angle = randomNextFloat(d[n + 1],
                                            Lo(c.angleMin, c.angleMax),
                                            Hi(c.angleMin, c.angleMax))
               /\ p.vertices =
                      randomNextInt(d[n + 2],
                          Max(3, IF c.verticesMin <= c.verticesMax
                                 THEN c.verticesMin ELSE c.verticesMax),
                          Max(c.verticesMin, c.verticesMax))
        /\ p.hue = randomNextFloat(d[m + 1], Lo(c.hueMin, c.hueMax),
                                   Hi(c.hueMin, c.hueMax))
        /\ p.saturation = randomNextFloat(d[m + 2],
                              Lo(c.saturationMin, c.saturationMax),
                              Hi(c.saturationMin, c.saturationMax))
        /\ c.variant = "hsl" =>
               p.lightness = randomNextFloat(d[m + 3],
                                 Lo(c.lightnessMin, c.lightnessMax),
                                 Hi(c.lightnessMin, c.lightnessMax))
        /\ Len(d) = m + (IF c.variant = "hsl" THEN 3 ELSE 2)

OrderKept ==
    (sampled > 0 /\ cfg.variant \in {"hs", "hsl"}) =>
        DrawsInOrder(params, cfg, drawn)

\* a call on a seeded generator: the values drawn are the next values of
\* the generator, in order, and the generator is left behind the last of
\* them, where the next sample starts
StreamFollowed ==
    (sampled' = sampled + 1 /\ cfg.variant \in {"hs", "hsl"}
         /\ source.kind = "seeded") =>
        /\ \A i \in 1 .. Len(drawn') :
               drawn'[i] = SeededDraw(source.state, i)
        /\ source'.state = Advance(source.state, Len(drawn'))

\* C24: generateRandomParams consumes draws in the order kind (mode 'both'
\* only), size, centerX, centerY, angle, vertices, hue, saturation,
\* lightness; the two centre draws are omitted exactly when the centre is
\* forced to (0.5, 0.5) and the angle and vertex draws exactly for
\* circles; the generator is left behind the draws taken, so the place of
\* the next sample in the stream depends on the samples before it.
C24_DrawOrder == []OrderKept /\ [][StreamFollowed]_vars

\* two samples from a seeded generator with sizes in [0.5, 2]: the second
\* took seven draws and the two together twelve, the first having taken
\* five with its centre forced
C24_Witness ==
    /\ sampled = 2 /\ source.kind = "seeded" /\ cfg.variant = "hs"
    /\ cfg.sizeMin = Half /\ cfg.sizeMax = RInt(2)
    /\ Len(drawn) = 7
    /\ \E s \in SamplerSeeds :
           source.state = Advance(SeededRandom(s), 12)

---------------------------------------------------------------------------
(* Properties of getBackgroundHSL *)

\* the colour for choice = floor(3u): 0 black, 1 white, 2 gray
ChoiceColour(choice) ==
    CASE choice = 0 -> <<Zero, Zero, Zero>>
      [] choice = 1 -> <<Zero, Zero, One>>
      [] choice = 2 -> <<Zero, Zero, Half>>

\* entry b of the log is what the policy prescribes
PolicyKept(b) ==
    /\ b.backgroundType = "white" =>
           (b.value = <<Zero, Zero, One>> /\ b.drawn = <<>>)
    /\ b.backgroundType = "black" =>
           (b.value = <<Zero, Zero, Zero>> /\ b.drawn = <<>>)
    /\ b.backgroundType = "gray" =>
           (b.value = <<Zero, Zero, Half>> /\ b.drawn = <<>>)
    /\ b.backgroundType = "random" =>
           /\ Len(b.drawn) = 1
           /\ RFloor(RMul(RInt(3), b.drawn[1])) \in {0, 1, 2}
           /\ b.value = ChoiceColour(RFloor(RMul(RInt(3), b.drawn[1])))
    /\ b.value[2] = Zero
    /\ b.value[3] \in {Zero, Half, One}

\* a call on a seeded generator takes the generator's next() for 'random'
\* and leaves the generator advanced by the draws taken
DrawsOneForRandom ==
    (Len(backgrounds') = Len(backgrounds) + 1 /\ source.kind = "seeded") =>
        LET b == backgrounds'[Len(backgrounds')]
        IN  /\ source'.state = Advance(source.state, Len(b.drawn))
            /\ b.backgroundType = "random" =>
                   b.drawn = <<Truncate(next(source.state).value)>>
            /\ b.backgroundType # "random" => source' = source

\* C19: getBackgroundHSL returns (0, 0, 1.0) for 'white', (0, 0, 0.0) for
\* 'black', (0, 0, 0.5) for 'gray', without a draw; for 'random' it
\* consumes exactly one draw u, takes choice = floor(3u) in {0, 1, 2} and
\* returns black for 0, white for 1, gray for 2; no value with
\* saturation # 0 or lightness outside {0.0, 0.5, 1.0} is ever returned.
C19_BackgroundPolicy ==
    /\ [](\A j \in 1 .. Len(backgrounds) : PolicyKept(backgrounds[j]))
    /\ [][DrawsOneForRandom]_vars

\* three calls for 'random' on the draws 0, 1/3 and 2/3 returned black,
\* white and gray: each of the three outcomes is reached
C19_Witness ==
    /\ Len(backgrounds) = 3
    /\ \A j \in 1 .. 3 : backgrounds[j].backgroundType = "random"
    /\ backgrounds[1].drawn = <<Zero>>
    /\ backgrounds[1].value = <<Zero, Zero, Zero>>
    /\ backgrounds[2].drawn = <<R(1, 3)>>
    /\ backgrounds[2].value = <<Zero, Zero, One>>
    /\ backgrounds[3].drawn = <<R(2, 3)>>
    /\ backgrounds[3].value = <<Zero, Zero, Half>>

---------------------------------------------------------------------------
(* Properties of the batch pipeline *)

\* the attributes of row d are those of record p
RowOf(d, p) ==
    /\ d.size = p.size /\ d.angle = p.angle /\ d.vertices = p.vertices
    /\ d.center_x = p.centerX /\ d.center_y = p.centerY
    /\ d.hue = p.hue /\ d.saturation = p.saturation

\* C10: a run with sampleCount N that has completed (the archive was handed
\* to saveAs) added exactly N entries to images/ and exactly N rows to the
\* metadata, sampled exactly N records, and for every i in 1 .. N the i-th
\* row and the i-th entry both carry formatFilename(i, N) and the i-th row
\* holds the attributes of the i-th record sampled; the archive saved holds
\* these entries.
C10_BatchShapeAndOrder ==
    (outcome = "completed" /\ config.sampleCount # NaN) =>
        /\ Len(images) = config.sampleCount
        /\ Len(metadata) = config.sampleCount
        /\ Len(history) = config.sampleCount
        /\ \A k \in 1 .. config.sampleCount :
               /\ metadata[k].filename = formatFilename(k, config.sampleCount)
               /\ images[k].name = formatFilename(k, config.sampleCount)
               /\ RowOf(metadata[k], history[k])
        /\ saved[Len(saved)].images = images
        /\ Len(Lines(saved[Len(saved)].metadata_csv)) = config.sampleCount + 1

\* a run of BatchSize + 1 samples has completed, its records not all equal
C10_Witness ==
    /\ outcome = "completed"
    /\ config.sampleCount = BatchSize + 1
    /\ Len(images) = BatchSize + 1
    /\ history[1] # history[2]
    /\ metadata[BatchSize + 1].filename = <<"0", "1", "0", "1", ".", "p", "n", "g">>

BlobFailure == <<"failed", "Failed to create blob">>

\* a step in which the pending toBlob fails
StopsAtFailure ==
    (pc = "awaitBlob" /\ outcome' = "failed") =>
        /\ pc' = "idle"
        /\ Len(history) = iter
        /\ Len(images) = iter - 1 /\ Len(metadata) = iter - 1
        /\ UNCHANGED <<history, images, metadata, rng, canvas, saved>>
        /\ csv' = "none"
        /\ alerts' = Append(alerts, BlobFailure)

\* a step after a failed run, before the next run starts
StaysStopped ==
    (outcome = "failed" /\ outcome' = "failed") =>
        UNCHANGED <<pc, history, images, metadata, rng, csv, saved>>

\* C11: when toBlob fails for sample k the run ends there: sample k is the
\* last record sampled and rendered and is not drawn again, k - 1 entries
\* and rows were added, metadata.csv is not built, nothing is handed to
\* saveAs, the failure is alerted and the run is over; and a run that has
\* failed samples, adds, builds and saves nothing more.
C11_AllOrNothing == [][StopsAtFailure /\ StaysStopped]_vars

\* toBlob failed for the second of three or more samples and the run is over
C11_Witness ==
    /\ outcome = "failed" /\ pc = "idle"
    /\ alerts[Len(alerts)] = BlobFailure
    /\ iter = 2 /\ config.sampleCount > 2
    /\ Len(history) = 2 /\ Len(images) = 1
    /\ csv = "none" /\ saved = <<>>

\* a step of a run that samples a record, after the first: the record is
\* drawn from the generator as the previous sample left it
Threaded ==
    (outcome = "running" /\ Len(history') = Len(history) + 1) =>
        /\ history' = Append(history,
                             SampleFrom(rng, config, canvasConfig.margin).params)
        /\ rng' = SampleFrom(rng, config, canvasConfig.margin).state

\* any other step of a run leaves the generator alone
NotReseeded ==
    (outcome = "running" /\ history' = history) => rng' = rng

\* two archives saved by runs with the same config, its seed not null
SameRun(a, b) == a.config = b.config /\ a.config.seed # <<>>

\* C12: a run draws every record after the first from the generator state
\* the previous record left and touches the generator nowhere else, and any
\* two completed runs with the same non-null seed and the same config have
\* equal metadata tables and equal metadata.csv, character by character.
C12_RunReproducible ==
    /\ [](\A a, b \in 1 .. Len(saved) :
             SameRun(saved[a], saved[b]) =>
                 /\ saved[a].metadata = saved[b].metadata
                 /\ saved[a].metadata_csv = saved[b].metadata_csv)
    /\ [][Threaded /\ NotReseeded]_vars

\* two runs of two samples with seed 1 have completed, one after the other,
\* and the two records of a run differ
C12_Witness ==
    /\ Len(saved) = 2
    /\ SameRun(saved[1], saved[2])
    /\ saved[1].config.sampleCount = 2
    /\ Lines(saved[2].metadata_csv)[2] # Lines(saved[2].metadata_csv)[3]
    /\ SubSeq(Lines(saved[2].metadata_csv)[3], 1, 9)
           = <<"0", "0", "0", "2", ".", "p", "n", "g", ",">>

\* the calls (i, N) for the i in 1 .. done with i mod 100 = 0 or i = N, in
\* increasing order of i
RECURSIVE Cadence(_, _)
Cadence(done, N) ==
    IF done = 0 THEN <<>>
    ELSE IF done % BatchSize = 0 \/ done = N
         THEN Append(Cadence(done - 1, N), <<done, N>>)
         ELSE Cadence(done - 1, N)

\* the calls made so far are those due for the samples finished so far;
\* while the timer is awaited the last call is the one for sample iter and
\* sample iter + 1 has not been sampled; a completed run ends on (N, N)
CadenceKept ==
    outcome # "none" =>
        /\ progressCalls = Cadence(Len(metadata), config.sampleCount)
        /\ pc = "yield" =>
               /\ progressCalls[Len(progressCalls)]
                      = <<iter, config.sampleCount>>
               /\ Len(history) = iter /\ Len(metadata) = iter
        /\ (outcome = "completed" /\ config.sampleCount # NaN) =>
               progressCalls[Len(progressCalls)]
                   = <<config.sampleCount, config.sampleCount>>

\* a step that calls updateProgress ends at the zero-delay timer, and the
\* next sample is drawn only by the step the timer starts
YieldsAfterReport ==
    /\ (outcome = "running" /\ progressCalls' # progressCalls) =>
           (pc' = "yield" /\ history' = history)
    /\ (pc = "yield" /\ history' # history) =>
           (progressCalls' = progressCalls /\ Len(history') = iter + 1)

\* C13: during a run of N samples updateProgress is called with (i, N)
\* exactly for the i in 1 .. N with i mod 100 = 0 or i = N, in increasing
\* order, each call followed by the zero-delay timer before sample i + 1 is
\* drawn; the last call of a completed run is (N, N).
C13_ProgressCadence == []CadenceKept /\ [][YieldsAfterReport]_vars

\* a run of 101 samples has completed after the calls (100, 101), (101, 101)
C13_Witness ==
    /\ outcome = "completed"
    /\ progressCalls = <<<<BatchSize, BatchSize + 1>>,
                         <<BatchSize + 1, BatchSize + 1>>>>
    /\ progressContainer.text = <<BatchSize + 1, BatchSize + 1>>

\* sampleCount >= 1, imageSize >= 16 and verticesMin >= 3, each a number
Satisfies(c) ==
    /\ c.sampleCount # NaN /\ c.sampleCount >= 1
    /\ c.imageSize # NaN /\ c.imageSize >= 16
    /\ c.verticesMin # NaN /\ c.verticesMin >= 3

\* a step that alerts a validation message and does nothing else: no canvas
\* resize, no generator, no record, no picture, no archive
OnlyAlerted ==
    /\ \E m \in {"sampleCount", "imageSize", "verticesMin"} :
           alerts' = Append(alerts, <<"invalid", m>>)
    /\ UNCHANGED <<canvasConfig, generatorConfig, canvas, generateBtn,
                   previewBtn, progressContainer, previewGrid, saved>>
    /\ UNCHANGED runVars

\* a click that starts a generation run: its form is kept as config
RunStarts == clicks' = clicks + 1 /\ outcome' = "running"

\* C14 (as claimed): a generation run starts only when the parsed form
\* satisfies sampleCount >= 1, imageSize >= 16 and verticesMin >= 3, a field
\* that parses to NaN not satisfying them; every other click alerts the
\* message of validateConfig and does nothing else.
C14_ValidationGate ==
    [][/\ RunStarts => Satisfies(config')
       /\ (clicks' = clicks + 1 /\ alerts' # alerts) => OnlyAlerted]_vars

\* no run is in progress: both buttons are enabled, the generate button
\* shows its original text and the progress container is hidden
EndsEnabled ==
    pc = "idle" =>
        /\ generateBtn = [disabled |-> FALSE, innerHTML |-> "originalText"]
        /\ previewBtn = [disabled |-> FALSE]
        /\ progressContainer.display = "none"

\* the generator, the records and the buffers of a run that has just
\* started: those of a generator newly made from seed s0
StartsFrom(s0) ==
    IF InLoop(1, config'.sampleCount)
    THEN /\ history' = <<SampleFrom(SeededRandom(s0), config',
                                    canvasConfig.margin).params>>
         /\ rng' = SampleFrom(SeededRandom(s0), config',
                              canvasConfig.margin).state
         /\ csv' = "none"
    ELSE history' = <<>> /\ rng' = SeededRandom(s0)

\* a step that starts a run, whatever came before
RestartsClean ==
    (outcome # "running" /\ outcome' = "running") =>
        /\ images' = <<>> /\ metadata' = <<>> /\ progressCalls' = <<>>
        /\ \E s0 \in (IF config'.seed = <<>> THEN AmbientSeeds
                       ELSE {config'.seed[1]}) : StartsFrom(s0)

\* C15: whenever a run has ended, by success, by a failed toBlob, or by a
\* failed generateAsync or saveAs, both buttons are enabled again and the
\* progress container is hidden, and the next run starts with a generator
\* newly made from its seed, no entry in the archive and no metadata row.
C15_CleanRestart == []EndsEnabled /\ [][RestartsClean]_vars

\* a second run is at its first sample after toBlob failed in the first run:
\* nothing is in the archive and both buttons are disabled again
C15_Witness ==
    /\ alerts = <<BlobFailure>> /\ clicks = 2
    /\ outcome = "running" /\ pc = "awaitBlob"
    /\ iter = 1 /\ Len(history) = 1
    /\ images = <<>> /\ metadata = <<>>
    /\ progressContainer.display = "none"
    /\ generateBtn.disabled

\* while generateData is suspended both triggers are disabled
DisabledWhileRunning ==
    pc # "idle" => (generateBtn.disabled /\ previewBtn.disabled)

\* the samples of the run so far: the k-th entry of the archive holds the
\* picture of the k-th record sampled under the k-th filename, and at the
\* await of toBlob the canvas shows, and the blob is, the picture of the
\* record just sampled, the iter-th
SamplesInOrder ==
    pc # "idle" =>
        /\ \A k \in 1 .. Len(images) :
               /\ images[k].name = formatFilename(k, config.sampleCount)
               /\ images[k].data = render(generatorConfig, history[k])
        /\ Len(history) - Len(images) \in {0, 1}
        /\ pc = "awaitBlob" =>
               /\ Len(history) = iter /\ Len(images) = iter - 1
               /\ current = history[iter]
               /\ blob = render(generatorConfig, current)
               /\ canvas.picture = blob

\* a step taken while generateData is suspended handles no click: no
\* generateData and no showPreview executes, and the step samples at most
\* the next record
NoHandlerWhileRunning ==
    pc # "idle" =>
        /\ UNCHANGED <<clicks, config, previewGrid, canvasConfig,
                       generatorConfig>>
        /\ iter' \in {iter, iter + 1}
        /\ \/ history' = history
           \/ pc' = "awaitBlob" /\ iter' = iter + 1
                  /\ history' = Append(history, current')
        /\ \/ images' = images
           \/ pc = "awaitBlob"
                  /\ images' = Append(images,
                         [name |-> formatFilename(iter, config.sampleCount),
                          data |-> blob])

\* C23: from the click that passes validation until finally, both the
\* generate and the preview button are disabled, at the first and at every
\* later suspension point; no click is handled while the run is suspended,
\* so the canvas and the blob at the await of toBlob are those of the
\* sample just rendered, and the samples are sampled, rendered and added
\* strictly in the order 1 .. N.
C23_NoOverlappingRuns ==
    /\ [](DisabledWhileRunning /\ SamplesInOrder)
    /\ [][NoHandlerWhileRunning]_vars

\* a run started by the second click, after a preview, is suspended at the
\* toBlob of its second sample with both buttons disabled
C23_Witness ==
    /\ pc = "awaitBlob" /\ iter = 2 /\ clicks = 2
    /\ previewGrid # <<>> /\ alerts = <<>>
    /\ generateBtn.disabled /\ previewBtn.disabled
    /\ Len(images) = 1 /\ Len(history) = 2

---------------------------------------------------------------------------
(* Properties of formatFilename *)

\* the number of decimal digits of n >= 0
RECURSIVE NumDigits(_)
NumDigits(n) == IF n < 10 THEN 1 ELSE 1 + NumDigits(n \div 10)

IsDigit(ch) == \E d \in 0 .. 9 : DecimalDigits[d + 1] = ch
DigitValue(ch) == CHOOSE d \in 0 .. 9 : DecimalDigits[d + 1] = ch

\* the number a sequence of decimal digits denotes
RECURSIVE Denotes(_)
Denotes(ds) ==
    IF ds = <<>> THEN 0
    ELSE (Denotes(SubSeq(ds, 1, Len(ds) - 1)) * 10) + DigitValue(ds[Len(ds)])

\* the character codes of the characters of a filename
CharCode(ch) ==
    IF IsDigit(ch) THEN 48 + DigitValue(ch)
    ELSE CASE ch = "." -> 46 [] ch = "g" -> 103
           [] ch = "n" -> 110 [] ch = "p" -> 112

\* s sorts before t, character by character
RECURSIVE LexLess(_, _)
LexLess(s, t) ==
    IF s = <<>> THEN t # <<>>
    ELSE IF t = <<>> THEN FALSE
    ELSE IF CharCode(Head(s)) # CharCode(Head(t))
         THEN CharCode(Head(s)) < CharCode(Head(t))
         ELSE LexLess(Tail(s), Tail(t))

\* name is index in decimal, left-padded with '0' to exactly width
\* characters, followed by '.png'
PaddedTo(name, index, width) ==
    /\ Len(name) = width + 4
    /\ SubSeq(name, width + 1, width + 4) = <<".", "p", "n", "g">>
    /\ \A j \in 1 .. width : IsDigit(name[j])
    /\ Denotes(SubSeq(name, 1, width)) = index

\* C16: for every total >= 1 and index i in 1 .. total, formatFilename(i,
\* total) is i in decimal left-padded with '0' to exactly max(4, number of
\* decimal digits of total) characters, followed by '.png'; so the names of
\* a run are pairwise distinct, of equal length, and sorted
\* lexicographically in generation order.
C16_FilenamePadding ==
    /\ \A j \in 1 .. Len(names) :
           PaddedTo(names[j].name, names[j].index, Max(4, NumDigits(total)))
    /\ \A j, k \in 1 .. Len(names) :
           j < k => /\ names[j].name # names[k].name
                    /\ Len(names[j].name) = Len(names[k].name)
                    /\ LexLess(names[j].name, names[k].name)

\* for a total of 99999 the names of 7, 1000 and 99999 were formatted:
\* 00007.png, 01000.png, 99999.png
C16_Witness ==
    /\ total = 99999 /\ Len(names) = 3
    /\ names[1] = [index |-> 7,
                   name |-> <<"0", "0", "0", "0", "7", ".", "p", "n", "g">>]
    /\ names[2].name = <<"0", "1", "0", "0", "0", ".", "p", "n", "g">>
    /\ names[3].name = <<"9", "9", "9", "9", "9", ".", "p", "n", "g">>

---------------------------------------------------------------------------
(* Properties of createCSV *)

\* the names of the columns
Columns ==
    << <<"f", "i", "l", "e", "n", "a", "m", "e">>,
       <<"s", "i", "z", "e">>,
       <<"a", "n", "g", "l", "e">>,
       <<"v", "e", "r", "t", "i", "c", "e", "s">>,
       <<"c", "e", "n", "t", "e", "r", "_", "x">>,
       <<"c", "e", "n", "t", "e", "r", "_", "y">>,
       <<"h", "u", "e">>,
       <<"s", "a", "t", "u", "r", "a", "t", "i", "o", "n">> >>

\* the fields of row d, in the order of the columns
InColumnOrder(fields, d) ==
    /\ Len(fields) = Len(Columns)
    /\ fields[1] = d.filename
    /\ fields[2] = toFixed(d.size, 4)
    /\ fields[3] = toFixed(d.angle, 2)
    /\ fields[4] = toString(d.vertices)
    /\ fields[5] = toFixed(d.center_x, 4)
    /\ fields[6] = toFixed(d.center_y, 4)
    /\ fields[7] = toFixed(d.hue, 2)
    /\ fields[8] = toFixed(d.saturation, 4)

\* C21: for a table of N rows createCSV returns exactly N + 1 lines; the
\* first is the column header filename, size, angle, vertices, center_x,
\* center_y, hue, saturation; line i + 1 is the i-th row of the table, and
\* every data line has as many comma-separated fields as the header, in
\* the order of its columns.
C21_MetadataSerialization ==
    csv # "none" =>
        /\ Len(Lines(csv)) = Len(metadata) + 1
        /\ Fields(Lines(csv)[1]) = Columns
        /\ \A i \in 1 .. Len(metadata) :
               InColumnOrder(Fields(Lines(csv)[i + 1]), metadata[i])

\* a table of three rows serialized: four lines, the third row a value
\* below zero, the second a value rounded up to its last digit
C21_Witness ==
    /\ csv # "none" /\ Len(metadata) = 3 /\ pc = "idle" /\ clicks = 0
    /\ Len(Lines(csv)) = 4
    /\ Fields(Lines(csv)[3])[2] = <<"1", ".", "0", "0", "0", "0">>
    /\ Fields(Lines(csv)[4])[3] = <<"-", "4", "5", ".", "5", "0">>

---------------------------------------------------------------------------
(* Properties of hslToColor *)

\* the integer a decimal numeral with an optional sign denotes
Signed(numeral) ==
    IF numeral[1] = "-" THEN 0 - Denotes(Tail(numeral)) ELSE Denotes(numeral)

\* the three integers written in 'rgb(ri, gi, bi)'
Channels(color) ==
    LET parts == Split(SubSeq(color, 5, Len(color) - 1), ",")
    IN  <<Signed(parts[1]), Signed(Tail(parts[2])), Signed(Tail(parts[3]))>>

\* C22 (as claimed): for every hue, saturation and lightness sampled from
\* the configured ranges, each of the three integers hslToColor writes
\* into the rgb(...) string lies in 0 .. 255.
C22_ChannelsQuantized ==
    colors # <<>> =>
        \A i \in 1 .. 3 : Channels(colors[1].color)[i] \in 0 .. 255

====
